---------------------------- MODULE Spec2Model ----------------------------
(***************************************************************************)
(* The blockdev layer of src/blockdev.c as a state machine: the drive      *)
(* registry (drives), drive admission (blockdev_init), the reference       *)
(* counting of drives (drive_get_ref / drive_put_ref and the deferred      *)
(* release), the block-job entry points and the transaction engine         *)
(* (qmp_transaction with its prepare/commit/abort/clean protocol).         *)
(* The guest agent's channel of src/qga/channel.h: the listener with its   *)
(* accept watch and clients, and the loop of ga_channel_write_all.         *)
(***************************************************************************)
EXTENDS Integers, Sequences, FiniteSets, Bags, TLC

VARIABLES
    drives,            \* the QTAILQ drives: sequence of DriveInfo records
    nextJob,           \* allocation counter: next BlockJob instance
    bhs,               \* scheduled bottom halves: sequence of DrivePutRefBH.dinfo pointers
    destroyed,         \* drive_uninit history: set of [refcount, pending, job]
    crashed,           \* the process was terminated by a failed assertion or abort()
    uaf,               \* a freed DriveInfo was dereferenced
    events,            \* monitor_protocol_event: bag of [job, event] notifications
    errp,              \* the error the last monitor command reported, "" for none
    pc,                \* position of the control thread inside qmp_transaction
    dev_list,          \* qmp_transaction: the submitted TransactionActionList
    dev_entry,         \* qmp_transaction: index of the next action of dev_list
    snap_bdrv_states,  \* qmp_transaction: the worklist of BlkTransactionState records
    local_err,         \* qmp_transaction: error set by a prepare ("" when none)
    calls,             \* operations invoked on worklist entries, in order
    pre,               \* the registry and scheduled releases when the transaction began
    init_call,         \* the admission under study: its options, registry and result
    chl,               \* guest agent: the GAChannelListener and its GAChannelClients
    wr                 \* guest agent: the call of ga_channel_write_all in progress

vars == <<drives, nextJob, bhs, destroyed, crashed, uaf, events, errp, pc, dev_list,
          dev_entry, snap_bdrv_states, local_err, calls, pre, init_call, chl, wr>>

regVars_but_drives == <<nextJob, bhs, destroyed, crashed, uaf, events, errp>>
regVars == <<drives, nextJob, bhs, destroyed, crashed, uaf, events, errp>>
txnVars == <<pc, dev_list, dev_entry, snap_bdrv_states, local_err, calls, pre,
             init_call>>
gaVars == <<chl, wr>>
blockVars == <<regVars, txnVars>>

-----------------------------------------------------------------------------
(* Bounds of the model *)

\* drives registered at one time
MaxDrives == 2
\* block jobs started in one run
MaxJobs == 2
\* actions in one transaction
MaxActions == 2
\* images in one backing chain
MaxChain == 2

-----------------------------------------------------------------------------
(* Bus kinds: if_name, if_max_devs, the index mapping *)

IF_NONE == "IF_NONE"
IF_IDE == "IF_IDE"
IF_SCSI == "IF_SCSI"
IF_FLOPPY == "IF_FLOPPY"
IF_PFLASH == "IF_PFLASH"
IF_MTD == "IF_MTD"
IF_SD == "IF_SD"
IF_VIRTIO == "IF_VIRTIO"
IF_XEN == "IF_XEN"

IfTypes == {IF_NONE, IF_IDE, IF_SCSI, IF_FLOPPY, IF_PFLASH, IF_MTD, IF_SD,
            IF_VIRTIO, IF_XEN}

if_name(type) ==
    CASE type = IF_NONE -> "none"
      [] type = IF_IDE -> "ide"
      [] type = IF_SCSI -> "scsi"
      [] type = IF_FLOPPY -> "floppy"
      [] type = IF_PFLASH -> "pflash"
      [] type = IF_MTD -> "mtd"
      [] type = IF_SD -> "sd"
      [] type = IF_VIRTIO -> "virtio"
      [] type = IF_XEN -> "xen"

if_max_devs_mut(type) ==
    CASE type = IF_IDE -> 2
      [] type = IF_SCSI -> 8
      [] OTHER -> 0

if_max_devs(type) ==
    CASE type = IF_IDE -> 2
      [] type = IF_SCSI -> 7
      [] OTHER -> 0

\* C integer division and remainder: the quotient truncates toward zero
CDiv(a, b) == IF a >= 0 THEN a \div b ELSE -((-a) \div b)
CMod(a, b) == a - b * CDiv(a, b)

drive_index_to_bus_id(type, index) ==
    LET max_devs == if_max_devs(type)
    IN  IF max_devs /= 0 THEN CDiv(index, max_devs) ELSE 0

drive_index_to_unit_id(type, index) ==
    LET max_devs == if_max_devs(type)
    IN  IF max_devs /= 0 THEN CMod(index, max_devs) ELSE index

-----------------------------------------------------------------------------
(* Registry lookups *)

NULL == 0

Range(s) == {s[i] : i \in 1..Len(s)}

Min(S) == CHOOSE x \in S : \A y \in S : x <= y

\* a lookup that finds no drive at any address
drive_get_none(ds, type, bus, unit) == NULL

\* QTAILQ_FOREACH returning the first matching element: NULL when there is none
drive_get(ds, type, bus, unit) ==
    LET hits == {i \in 1..Len(ds) :
                    ds[i].type = type /\ ds[i].bus = bus /\ ds[i].unit = unit}
    IN  IF hits = {} THEN NULL ELSE ds[Min(hits)].ptr

drive_get_by_index(ds, type, index) ==
    drive_get(ds, type, drive_index_to_bus_id(type, index),
              drive_index_to_unit_id(type, index))

\* a BlockDriverState is named by the pointer of the DriveInfo allocated with it
drive_get_by_blockdev(ds, bs) ==
    LET hits == {i \in 1..Len(ds) : ds[i].ptr = bs}
    IN  IF hits = {} THEN NULL ELSE ds[Min(hits)].ptr

\* position in the registry of the DriveInfo with pointer p (0 when absent)
PosOf(ds, p) ==
    LET hits == {i \in 1..Len(ds) : ds[i].ptr = p}
    IN  IF hits = {} THEN 0 ELSE Min(hits)

Deref(ds, p) == ds[PosOf(ds, p)]

\* QTAILQ_REMOVE(&drives, dinfo, next)
QTAILQ_REMOVE(ds, p) ==
    LET Keep(d) == d.ptr /= p
    IN  SelectSeq(ds, Keep)

-----------------------------------------------------------------------------
(* Drive admission: blockdev_init *)

NoJob == [id |-> 0, type |-> "", speed |-> 0, paused |-> FALSE,
          cancelled |-> FALSE, complete |-> FALSE]

HasJob(d) == d.bdrv.job.id /= 0

BLOCK_IO_LIMIT_ZERO == [bps |-> 0, bps_rd |-> 0, bps_wr |-> 0,
                        iops |-> 0, iops_rd |-> 0, iops_wr |-> 0]

\* bdrv_io_limits_enabled of the block layer: some limit is non-zero
bdrv_io_limits_enabled(io_limits) ==
    \E f \in DOMAIN io_limits : io_limits[f] /= 0

\* a check of the signs only
do_check_io_limits_sign(io_limits) ==
    \A f \in DOMAIN io_limits : io_limits[f] >= 0

do_check_io_limits(io_limits) ==
    LET bps_flag == io_limits.bps /= 0
                    /\ (io_limits.bps_rd /= 0 \/ io_limits.bps_wr /= 0)
        iops_flag == io_limits.iops /= 0
                     /\ (io_limits.iops_rd /= 0 \/ io_limits.iops_wr /= 0)
    IN  IF bps_flag \/ iops_flag THEN FALSE
        ELSE IF io_limits.bps < 0 \/ io_limits.bps_wr < 0 \/ io_limits.bps_rd < 0
                \/ io_limits.iops < 0 \/ io_limits.iops_wr < 0
                \/ io_limits.iops_rd < 0
        THEN FALSE
        ELSE TRUE

\* -1 is rendered as "": the action is invalid
parse_block_error_action(buf, is_read) ==
    IF buf = "ignore" THEN "BLOCKDEV_ON_ERROR_IGNORE"
    ELSE IF ~is_read /\ buf = "enospc" THEN "BLOCKDEV_ON_ERROR_ENOSPC"
    ELSE IF buf = "stop" THEN "BLOCKDEV_ON_ERROR_STOP"
    ELSE IF buf = "report" THEN "BLOCKDEV_ON_ERROR_REPORT"
    ELSE ""

\* bdrv_parse_discard_flags of the block layer: [ok, flags]
bdrv_parse_discard_flags(mode, flags) ==
    IF mode = "off" \/ mode = "ignore"
    THEN [ok |-> TRUE, flags |-> flags \ {"BDRV_O_UNMAP"}]
    ELSE IF mode = "on" \/ mode = "unmap"
    THEN [ok |-> TRUE, flags |-> flags \cup {"BDRV_O_UNMAP"}]
    ELSE [ok |-> FALSE, flags |-> flags]

\* lines 388-397: the bus kind, "IF_COUNT" when the name is unknown
blockdev_init_type(o, block_default_type) ==
    IF o.if_ /= ""
    THEN IF \E t \in IfTypes : if_name(t) = o.if_
         THEN CHOOSE t \in IfTypes : if_name(t) = o.if_
         ELSE "IF_COUNT"
    ELSE block_default_type

\* lines 401-548: the option checks that return NULL before any allocation
\* a geometry check that accepts whatever is given
blockdev_init_geometry_any(o) == TRUE

\* lines 401-414: a geometry, when one is given, has all three numbers >= 1
blockdev_init_geometry(o) ==
    (o.cyls /= 0 \/ o.heads /= 0 \/ o.secs /= 0)
        => (o.cyls >= 1 /\ o.heads >= 1 /\ o.secs >= 1)

blockdev_init_checks(o, type) ==
    /\ blockdev_init_geometry(o)
    /\ o.trans /= "" => (o.cyls /= 0 /\ o.trans \in {"none", "lba", "auto"})
    /\ o.media /= "" => \/ o.media = "disk"
                        \/ o.media = "cdrom"
                           /\ ~(o.cyls /= 0 \/ o.secs /= 0 \/ o.heads /= 0)
    /\ o.discard /= "" => bdrv_parse_discard_flags(o.discard, {}).ok
    /\ o.format /= "?"
    /\ do_check_io_limits(o.io_limits)
    /\ o.werror /= "" => /\ type \in {IF_IDE, IF_SCSI, IF_VIRTIO, IF_NONE}
                         /\ parse_block_error_action(o.werror, FALSE) /= ""
    /\ o.rerror /= "" => /\ type \in {IF_IDE, IF_VIRTIO, IF_SCSI, IF_NONE}
                         /\ parse_block_error_action(o.rerror, TRUE) /= ""
    /\ o.addr /= "" => type = IF_VIRTIO

\* a scan that stays on the bus it started on
RECURSIVE FirstFree_one_bus(_, _, _, _)
FirstFree_one_bus(ds, type, bus_id, unit_id) ==
    IF drive_get(ds, type, bus_id, unit_id) /= NULL
    THEN FirstFree_one_bus(ds, type, bus_id, unit_id + 1)
    ELSE <<bus_id, unit_id>>

\* lines 565-574: the first free unit, scanning from unit 0 of bus_id
RECURSIVE FirstFree(_, _, _, _)
FirstFree(ds, type, bus_id, unit_id) ==
    LET max_devs == if_max_devs(type)
    IN  IF drive_get(ds, type, bus_id, unit_id) /= NULL
        THEN IF max_devs /= 0 /\ unit_id + 1 >= max_devs
             THEN FirstFree(ds, type, bus_id + 1, unit_id + 1 - max_devs)
             ELSE FirstFree(ds, type, bus_id, unit_id + 1)
        ELSE <<bus_id, unit_id>>

\* lines 552-574: [ok, bus, unit]
blockdev_init_address(ds, o, type) ==
    LET byIndex == o.index /= -1
        bus0 == IF byIndex THEN drive_index_to_bus_id(type, o.index) ELSE o.bus
        unit0 == IF byIndex THEN drive_index_to_unit_id(type, o.index) ELSE o.unit
        free == FirstFree(ds, type, bus0, 0)
    IN  IF byIndex /\ (o.bus /= 0 \/ o.unit /= -1)
        THEN [ok |-> FALSE, bus |-> o.bus, unit |-> o.unit]
        ELSE IF unit0 = -1
        THEN [ok |-> TRUE, bus |-> free[1], unit |-> free[2]]
        ELSE [ok |-> TRUE, bus |-> bus0, unit |-> unit0]

\* lines 596-610: the id given, or one made from the bus kind, bus, media and unit
blockdev_init_id(o, type, bus_id, unit_id) ==
    LET mediastr == IF type = IF_IDE \/ type = IF_SCSI
                    THEN (IF o.media = "cdrom" THEN "-cd" ELSE "-hd")
                    ELSE ""
    IN  IF o.id /= "" THEN o.id
        ELSE IF if_max_devs(type) /= 0
        THEN if_name(type) \o ToString(bus_id) \o mediastr \o ToString(unit_id)
        ELSE if_name(type) \o mediastr \o ToString(unit_id)

\* lines 456-465 and 671-696: the flags bdrv_open is called with
blockdev_init_flags(o, ro, inmigrate) ==
    LET discarded == bdrv_parse_discard_flags(o.discard, {}).flags
        reset == {}
        cache == reset
                 \cup (IF o.cache_writeback THEN {"BDRV_O_CACHE_WB"} ELSE {})
                 \cup (IF o.cache_direct THEN {"BDRV_O_NOCACHE"} ELSE {})
                 \cup (IF o.cache_no_flush THEN {"BDRV_O_NO_FLUSH"} ELSE {})
        snap == IF o.snapshot
                THEN (cache \ {"BDRV_O_CACHE_WB", "BDRV_O_NOCACHE", "BDRV_O_NO_FLUSH"})
                     \cup {"BDRV_O_SNAPSHOT", "BDRV_O_CACHE_WB", "BDRV_O_NO_FLUSH"}
                ELSE cache
    IN  snap
        \cup (IF o.copy_on_read THEN {"BDRV_O_COPY_ON_READ"} ELSE {})
        \cup (IF inmigrate THEN {"BDRV_O_INCOMING"} ELSE {})
        \cup (IF ro THEN {} ELSE {"BDRV_O_RDWR"})

\* lines 596-632: the DriveInfo and its BlockDriverState before the image is opened
blockdev_init_dinfo(p, o, type, bus_id, unit_id) ==
    [ptr |-> p,
     id |-> blockdev_init_id(o, type, bus_id, unit_id),
     type |-> type,
     bus |-> bus_id,
     unit |-> unit_id,
     chs |-> <<o.cyls, o.heads, o.secs>>,
     media_cd |-> type \in {IF_IDE, IF_SCSI, IF_XEN, IF_NONE} /\ o.media = "cdrom",
     opts |-> [index |-> o.index],
     refcount |-> 1,
     auto_del |-> FALSE,
     bdrv |-> [device_name |-> blockdev_init_id(o, type, bus_id, unit_id),
               open_flags |-> IF o.snapshot THEN {"BDRV_O_SNAPSHOT"} ELSE {},
               read_only |-> o.read_only,
               chain |-> <<>>,
               length |-> 0,
               in_use |-> FALSE,
               job |-> NoJob,
               dev |-> FALSE,
               on_read_error |-> IF o.rerror /= ""
                                 THEN parse_block_error_action(o.rerror, TRUE)
                                 ELSE "BLOCKDEV_ON_ERROR_REPORT",
               on_write_error |-> IF o.werror /= ""
                                  THEN parse_block_error_action(o.werror, FALSE)
                                  ELSE "BLOCKDEV_ON_ERROR_ENOSPC",
               io_limits |-> o.io_limits,
               io_limits_enabled |-> bdrv_io_limits_enabled(o.io_limits),
               block_timer |-> "NULL"]]

\* an error path that leaves the new entry in the list
blockdev_init_err_keep(inserted, p) == inserted

\* lines 724-731, the label err: the new entry leaves the list and is freed
blockdev_init_err(inserted, p) == QTAILQ_REMOVE(inserted, p)
\* an admission that opens a backend whatever it is given
blockdev_init_no_file_never(o) == FALSE

\* lines 664-670: nothing names an image, the drive is returned without medium
blockdev_init_no_file(o) == o.file = "" /\ ~o.has_driver_specific_opts

\* blockdev_init: [drives, ret, allocated]; ret is the new DriveInfo or NULL.
\* env.open_ret is what bdrv_open returns, env.inmigrate the run state.
blockdev_init(ds, p, o, block_default_type, env) ==
    LET type == blockdev_init_type(o, block_default_type)
        fail == [drives |-> ds, ret |-> NULL, allocated |-> FALSE]
    IN  IF type = "IF_COUNT" THEN fail
        ELSE IF ~blockdev_init_checks(o, type) THEN fail
        ELSE
        LET max_devs == if_max_devs(type)
            a == blockdev_init_address(ds, o, type)
        IN  IF ~a.ok THEN fail
            ELSE IF max_devs /= 0 /\ a.unit >= max_devs THEN fail
            ELSE IF drive_get(ds, type, a.bus, a.unit) /= NULL THEN fail
            ELSE
            LET dinfo == blockdev_init_dinfo(p, o, type, a.bus, a.unit)
                inserted == Append(ds, dinfo)
                ro == IF o.media = "cdrom" THEN TRUE ELSE o.read_only
                bdrv_flags == blockdev_init_flags(o, ro, env.inmigrate)
                err == [drives |-> blockdev_init_err(inserted, p), ret |-> NULL,
                        allocated |-> TRUE]
                opened == [dinfo EXCEPT !.bdrv.chain = <<o.file>>,
                                        !.bdrv.open_flags = bdrv_flags,
                                        !.bdrv.read_only = ro,
                                        !.bdrv.block_timer =
                                            IF dinfo.bdrv.io_limits_enabled
                                            THEN "idle" ELSE "NULL"]
            IN  IF blockdev_init_no_file(o)
                THEN [drives |-> inserted, ret |-> p, allocated |-> TRUE]
                ELSE IF o.media /= "cdrom" /\ o.read_only
                        /\ type \notin {IF_SCSI, IF_VIRTIO, IF_FLOPPY, IF_NONE, IF_PFLASH}
                THEN err
                ELSE IF env.open_ret < 0 THEN err
                ELSE [drives |-> Append(ds, opened), ret |-> p, allocated |-> TRUE]

-----------------------------------------------------------------------------
(* Reference counting, deletion, hot-unplug *)

\* bdrv_find of the block layer: the BlockDriverState with this device name
bdrv_find(ds, device) ==
    LET hits == {i \in 1..Len(ds) :
                    device /= "" /\ ds[i].bdrv.device_name = device}
    IN  IF hits = {} THEN NULL ELSE ds[Min(hits)].ptr

\* releases scheduled for the DriveInfo p and not yet run
Pending(q, p) == Cardinality({i \in 1..Len(q) : q[i] = p})

\* drive_uninit: the entry leaves the registry, its backend is deleted
drive_uninit(ds, p) == QTAILQ_REMOVE(ds, p)

Uninit(ds, q, p) ==
    [refcount |-> Deref(ds, p).refcount, pending |-> Pending(q, p),
     job |-> HasJob(Deref(ds, p))]

\* a release that counts down and never destroys
drive_put_ref_leak(ds, p) ==
    [ds EXCEPT ![PosOf(ds, p)].refcount = @ - 1]

\* drive_put_ref on a registered DriveInfo whose refcount is not 0
drive_put_ref(ds, p) ==
    LET i == PosOf(ds, p)
    IN  IF ds[i].refcount - 1 = 0
        THEN drive_uninit(ds, p)
        ELSE [ds EXCEPT ![i].refcount = @ - 1]

drive_get_ref(ds, p) ==
    [ds EXCEPT ![PosOf(ds, p)].refcount = @ + 1]

\* the history entry drive_put_ref adds when it destroys the drive
PutRefDestroyed(ds, q, p) ==
    IF Deref(ds, p).refcount - 1 = 0
    THEN {[refcount |-> 0, pending |-> Pending(q, p),
           job |-> HasJob(Deref(ds, p))]}
    ELSE {}

\* block_job_cancel of the job layer: the job is only marked cancelled
block_job_cancel(ds, p) ==
    [ds EXCEPT ![PosOf(ds, p)].bdrv.job.cancelled = TRUE,
               ![PosOf(ds, p)].bdrv.job.paused = FALSE]

Idle == pc = "idle" /\ ~crashed

\* blockdev_mark_auto_del(bs), called by the device model being unplugged
blockdev_mark_auto_del(p) ==
    /\ Idle
    /\ PosOf(drives, p) /= 0
    /\ Deref(drives, p).bdrv.dev
    /\ LET ds1 == IF HasJob(Deref(drives, p))
                  THEN block_job_cancel(drives, p) ELSE drives
       IN  drives' = [ds1 EXCEPT ![PosOf(ds1, p)].auto_del = TRUE]
    /\ UNCHANGED <<nextJob, bhs, destroyed, crashed, uaf, events, errp>>
    /\ UNCHANGED <<txnVars, gaVars>>

\* blockdev_auto_del(bs), called by qdev when the unplugged device is released
blockdev_auto_del(p) ==
    /\ Idle
    /\ PosOf(drives, p) /= 0
    /\ Deref(drives, p).bdrv.dev
    /\ LET ds1 == [drives EXCEPT ![PosOf(drives, p)].bdrv.dev = FALSE]
       IN  IF Deref(drives, p).auto_del
           THEN /\ drives' = drive_put_ref(ds1, p)
                /\ destroyed' = destroyed \cup PutRefDestroyed(ds1, bhs, p)
           ELSE /\ drives' = ds1
                /\ UNCHANGED destroyed
    /\ UNCHANGED <<nextJob, bhs, crashed, uaf, events, errp>>
    /\ UNCHANGED <<txnVars, gaVars>>

\* do_drive_del(id)
\* a deletion that closes the backend without quiescing it first
drive_del_calls_undrained(ds, id) ==
    LET bs == bdrv_find(ds, id)
    IN  IF bs = NULL \/ Deref(ds, bs).bdrv.in_use THEN <<>>
        ELSE <<"bdrv_flush", "bdrv_close", "bdrv_drain_all">>

\* lines 1303-1316: the block-layer calls of do_drive_del, in order
drive_del_calls(ds, id) ==
    LET bs == bdrv_find(ds, id)
    IN  IF bs = NULL \/ Deref(ds, bs).bdrv.in_use THEN <<>>
        ELSE <<"bdrv_drain_all", "bdrv_flush", "bdrv_close">>

\* a deletion that leaves the backend of an attached device under its name
do_drive_del_named(id) ==
    /\ Idle
    /\ LET bs == bdrv_find(drives, id)
       IN  IF bs = NULL THEN UNCHANGED <<drives, destroyed>>
           ELSE IF Deref(drives, bs).bdrv.in_use THEN UNCHANGED <<drives, destroyed>>
           ELSE
           LET i == PosOf(drives, bs)
               closed == [drives EXCEPT ![i].bdrv.chain = <<>>]
           IN  IF closed[i].bdrv.dev
               THEN /\ drives' = [closed EXCEPT
                          ![i].bdrv.on_read_error = "BLOCKDEV_ON_ERROR_REPORT",
                          ![i].bdrv.on_write_error = "BLOCKDEV_ON_ERROR_REPORT"]
                    /\ UNCHANGED destroyed
               ELSE /\ drives' = drive_uninit(closed, drive_get_by_blockdev(closed, bs))
                    /\ destroyed' = destroyed \cup {Uninit(closed, bhs, bs)}
    /\ errp' = LET bs == bdrv_find(drives, id)
               IN  IF bs = NULL THEN "DeviceNotFound"
                   ELSE IF Deref(drives, bs).bdrv.in_use THEN "DeviceInUse"
                   ELSE ""
    /\ UNCHANGED <<nextJob, bhs, crashed, uaf, events>>
    /\ UNCHANGED <<txnVars, gaVars>>

do_drive_del(id) ==
    /\ Idle
    /\ LET bs == bdrv_find(drives, id)
       IN  IF bs = NULL THEN UNCHANGED <<drives, destroyed>>
           ELSE IF Deref(drives, bs).bdrv.in_use THEN UNCHANGED <<drives, destroyed>>
           ELSE
           LET i == PosOf(drives, bs)
               closed == [drives EXCEPT ![i].bdrv.chain = <<>>]
           IN  IF closed[i].bdrv.dev
               THEN /\ drives' = [closed EXCEPT
                          ![i].bdrv.device_name = "",
                          ![i].bdrv.on_read_error = "BLOCKDEV_ON_ERROR_REPORT",
                          ![i].bdrv.on_write_error = "BLOCKDEV_ON_ERROR_REPORT"]
                    /\ UNCHANGED destroyed
               ELSE /\ drives' = drive_uninit(closed, drive_get_by_blockdev(closed, bs))
                    /\ destroyed' = destroyed \cup {Uninit(closed, bhs, bs)}
    /\ errp' = LET bs == bdrv_find(drives, id)
               IN  IF bs = NULL THEN "DeviceNotFound"
                   ELSE IF Deref(drives, bs).bdrv.in_use THEN "DeviceInUse"
                   ELSE ""
    /\ UNCHANGED <<nextJob, bhs, crashed, uaf, events>>
    /\ UNCHANGED <<txnVars, gaVars>>

\* drive_put_ref_bh: the i-th scheduled release runs
drive_put_ref_bh(i) ==
    /\ Idle
    /\ i \in 1..Len(bhs)
    /\ bhs' = SubSeq(bhs, 1, i - 1) \o SubSeq(bhs, i + 1, Len(bhs))
    /\ IF PosOf(drives, bhs[i]) /= 0
       THEN /\ drives' = drive_put_ref(drives, bhs[i])
            /\ destroyed' = destroyed \cup PutRefDestroyed(drives, bhs', bhs[i])
            /\ UNCHANGED <<crashed, uaf>>
       ELSE \* the DriveInfo was freed: assert(dinfo->refcount) reads freed memory
            /\ uaf' = TRUE
            /\ crashed' \in BOOLEAN
            /\ UNCHANGED <<drives, destroyed>>
    /\ UNCHANGED <<nextJob, events, errp>>
    /\ UNCHANGED <<txnVars, gaVars>>

-----------------------------------------------------------------------------
(* Block jobs: the start entry points, completion, the deferred release *)

Images == {"a.img", "b.img", "snap.img"}
Formats == {"qcow2"}

\* bdrv_is_inserted
bdrv_is_inserted(d) == d.bdrv.chain /= <<>>

\* bdrv_find_backing_image: an image below the active one with this file name
bdrv_find_backing_image(d, name) ==
    \E i \in 2..Len(d.bdrv.chain) : d.bdrv.chain[i] = name

\* block_job_create of the job layer: a job may be created on bs only if bs has
\* no job and is not in use; the new job then owns the in-use flag
block_job_create_ok(d) == ~HasJob(d) /\ ~d.bdrv.in_use

block_job_create(ds, p, type, jid) ==
    [ds EXCEPT ![PosOf(ds, p)].bdrv.job =
                   [NoJob EXCEPT !.id = jid, !.type = type],
               ![PosOf(ds, p)].bdrv.in_use = TRUE]

\* what the collaborators of a job start answer
EnvOk == [len_ok |-> TRUE, create_ok |-> TRUE, open_ok |-> TRUE, start_ok |-> TRUE]

StartEnv == {EnvOk,
             [EnvOk EXCEPT !.len_ok = FALSE],
             [EnvOk EXCEPT !.create_ok = FALSE],
             [EnvOk EXCEPT !.open_ok = FALSE],
             [EnvOk EXCEPT !.start_ok = FALSE]}

\* the reference a started job holds (lines 1438, 1499, 1616, 1757)
\* a job start that takes no reference on the drive
job_keep_count(ds, bs) == ds

\* drive_get_ref(drive_get_by_blockdev(bs)) after a successful start
job_get_ref(ds, bs) == drive_get_ref(ds, drive_get_by_blockdev(ds, bs))

\* a job start that does not look at the in-use mark
start_in_use_never(d) == FALSE

\* lines 1555-1558 and 1690-1693: a backup or a mirror is refused on a
\* backend that is in use
start_in_use(d) == d.bdrv.in_use

\* qmp_block_stream, as a function of the registry: [drives, err, started]
block_stream(ds, device, base, env, jid) ==
    LET bs == bdrv_find(ds, device)
        fail(e) == [drives |-> ds, err |-> e, started |-> FALSE]
    IN  IF bs = NULL THEN fail("DeviceNotFound")
        ELSE IF base /= "" /\ ~bdrv_find_backing_image(Deref(ds, bs), base)
        THEN fail("BaseNotFound")
        ELSE IF ~(block_job_create_ok(Deref(ds, bs)) /\ env.start_ok)
        THEN fail("DeviceInUse")
        ELSE [drives |-> job_get_ref(block_job_create(ds, bs, "stream", jid), bs),
              err |-> "", started |-> TRUE]

\* qmp_block_commit with the default top (the active layer) or a named one
block_commit(ds, device, top, base, env, jid) ==
    LET bs == bdrv_find(ds, device)
        fail(e) == [drives |-> ds, err |-> e, started |-> FALSE,
                    calls |-> <<"bdrv_drain_all">>]
    IN  IF bs = NULL THEN fail("DeviceNotFound")
        ELSE
        LET d == Deref(ds, bs)
            active == IF d.bdrv.chain = <<>> THEN "" ELSE d.bdrv.chain[1]
            top_ok == top = "" \/ top = active \/ bdrv_find_backing_image(d, top)
            top_pos == IF top = "" \/ top = active THEN 1
                       ELSE Min({i \in 2..Len(d.bdrv.chain) : d.bdrv.chain[i] = top})
            base_ok == base = ""
                       \/ \E i \in (top_pos + 1)..Len(d.bdrv.chain) :
                              d.bdrv.chain[i] = base
        IN  IF ~top_ok THEN fail("TopNotFound")
            ELSE IF ~base_ok THEN fail("BaseNotFound")
            ELSE IF ~(block_job_create_ok(d) /\ env.start_ok)
            THEN [fail("DeviceInUse") EXCEPT
                      !.calls = <<"bdrv_drain_all", "commit_start">>]
            ELSE [drives |-> job_get_ref(block_job_create(ds, bs, "commit", jid), bs),
                  err |-> "", started |-> TRUE,
                  calls |-> <<"bdrv_drain_all", "commit_start">>]

\* qmp_drive_backup
drive_backup(ds, device, format, mode, env, jid) ==
    LET bs == bdrv_find(ds, device)
        fail(e) == [drives |-> ds, err |-> e, started |-> FALSE]
    IN  IF bs = NULL THEN fail("DeviceNotFound")
        ELSE IF ~bdrv_is_inserted(Deref(ds, bs)) THEN fail("DeviceHasNoMedium")
        ELSE IF format /= "" /\ format \notin Formats THEN fail("InvalidBlockFormat")
        ELSE IF start_in_use(Deref(ds, bs)) THEN fail("DeviceInUse")
        ELSE IF ~env.len_ok THEN fail("GetLengthFailed")
        ELSE IF mode /= "existing" /\ ~env.create_ok THEN fail("CreateFailed")
        ELSE IF ~env.open_ok THEN fail("OpenFailed")
        ELSE IF ~(block_job_create_ok(Deref(ds, bs)) /\ env.start_ok)
        THEN fail("DeviceInUse")
        ELSE [drives |-> job_get_ref(block_job_create(ds, bs, "backup", jid), bs),
              err |-> "", started |-> TRUE]

\* qmp_drive_mirror: [drives, err, started, crash]; crash is the dereference of
\* a null source (lines 1719-1722)
drive_mirror(ds, device, format, sync, mode, granularity_ok, env, jid) ==
    LET bs == bdrv_find(ds, device)
        fail(e) == [drives |-> ds, err |-> e, started |-> FALSE, crash |-> FALSE]
    IN  IF ~granularity_ok THEN fail("InvalidParameter")
        ELSE IF bs = NULL THEN fail("DeviceNotFound")
        ELSE IF ~bdrv_is_inserted(Deref(ds, bs)) THEN fail("DeviceHasNoMedium")
        ELSE IF format /= "" /\ format \notin Formats THEN fail("InvalidBlockFormat")
        ELSE IF start_in_use(Deref(ds, bs)) THEN fail("DeviceInUse")
        ELSE
        LET has_source == Len(Deref(ds, bs).bdrv.chain) >= 2
            sync1 == IF ~has_source /\ sync = "top" THEN "full" ELSE sync
        IN  IF ~env.len_ok THEN fail("GetLengthFailed")
            ELSE IF ~(sync1 = "full" /\ mode /= "existing") /\ mode /= "existing"
                    /\ ~has_source
            THEN [drives |-> ds, err |-> "", started |-> FALSE, crash |-> TRUE]
            ELSE IF mode /= "existing" /\ ~env.create_ok THEN fail("CreateFailed")
            ELSE IF ~env.open_ok THEN fail("OpenFailed")
            ELSE IF ~(block_job_create_ok(Deref(ds, bs)) /\ env.start_ok)
            THEN fail("DeviceInUse")
            ELSE [drives |-> job_get_ref(block_job_create(ds, bs, "mirror", jid), bs),
                  err |-> "", started |-> TRUE, crash |-> FALSE]

Devices == {"ide0-hd0", "ide0-hd1", "nodev"}

JobsLeft == nextJob <= MaxJobs

qmp_block_stream(device, base, env) ==
    /\ Idle /\ JobsLeft
    /\ LET r == block_stream(drives, device, base, env, nextJob)
       IN  /\ drives' = r.drives
           /\ nextJob' = IF r.started THEN nextJob + 1 ELSE nextJob
           /\ errp' = r.err
    /\ UNCHANGED <<bhs, destroyed, crashed, uaf, events>>
    /\ UNCHANGED <<txnVars, gaVars>>

qmp_block_commit(device, top, base, env) ==
    /\ Idle /\ JobsLeft
    /\ LET r == block_commit(drives, device, top, base, env, nextJob)
       IN  /\ drives' = r.drives
           /\ nextJob' = IF r.started THEN nextJob + 1 ELSE nextJob
           /\ errp' = r.err
    /\ UNCHANGED <<bhs, destroyed, crashed, uaf, events>>
    /\ UNCHANGED <<txnVars, gaVars>>

qmp_drive_backup(device, format, mode, env) ==
    /\ Idle /\ JobsLeft
    /\ LET r == drive_backup(drives, device, format, mode, env, nextJob)
       IN  /\ drives' = r.drives
           /\ nextJob' = IF r.started THEN nextJob + 1 ELSE nextJob
           /\ errp' = r.err
    /\ UNCHANGED <<bhs, destroyed, crashed, uaf, events>>
    /\ UNCHANGED <<txnVars, gaVars>>

qmp_drive_mirror(device, format, sync, mode, granularity_ok, env) ==
    /\ Idle /\ JobsLeft
    /\ LET r == drive_mirror(drives, device, format, sync, mode, granularity_ok,
                             env, nextJob)
       IN  /\ drives' = r.drives
           /\ nextJob' = IF r.started THEN nextJob + 1 ELSE nextJob
           /\ errp' = r.err
           /\ crashed' = r.crash
    /\ UNCHANGED <<bhs, destroyed, uaf, events>>
    /\ UNCHANGED <<txnVars, gaVars>>

\* drive_put_ref_bh_schedule
drive_put_ref_bh_schedule(q, dinfo) == Append(q, dinfo)

\* a callback that reports every job as completed
block_job_event_completed(cancelled) == "BLOCK_JOB_COMPLETED"

\* lines 1390-1394: the notification block_job_cb emits
block_job_event(cancelled) ==
    IF cancelled THEN "BLOCK_JOB_CANCELLED" ELSE "BLOCK_JOB_COMPLETED"

\* block_job_cb(bs, ret): one notification, then the release of the drive
\* reference is scheduled: [bhs, events]
block_job_cb(ds, q, ev, bs) ==
    [bhs |-> drive_put_ref_bh_schedule(q, drive_get_by_blockdev(ds, bs)),
     events |-> ev (+) SetToBag({[job |-> Deref(ds, bs).bdrv.job.id,
                                  event |-> block_job_event(
                                                Deref(ds, bs).bdrv.job.cancelled)]})]

\* the job layer ends a job: it calls the completion callback once, then
\* detaches the job from its backend: [drives, bhs, events]
block_job_completed(ds, q, ev, bs) ==
    [drives |-> [ds EXCEPT ![PosOf(ds, bs)].bdrv.job = NoJob,
                           ![PosOf(ds, bs)].bdrv.in_use = FALSE],
     bhs |-> block_job_cb(ds, q, ev, bs).bhs,
     events |-> block_job_cb(ds, q, ev, bs).events]

\* the job of drive p finishes (by itself, or because it was cancelled)
JobComplete(p) ==
    /\ Idle
    /\ PosOf(drives, p) /= 0
    /\ HasJob(Deref(drives, p))
    /\ ~Deref(drives, p).bdrv.job.paused
    /\ LET r == block_job_completed(drives, bhs, events, p)
       IN  /\ drives' = r.drives
           /\ bhs' = r.bhs
           /\ events' = r.events
    /\ UNCHANGED <<nextJob, errp, destroyed, crashed, uaf>>
    /\ UNCHANGED <<txnVars, gaVars>>

-----------------------------------------------------------------------------
(* Job control *)

\* a lookup that returns the backend whether it has a job or not
find_block_job_bs(ds, device) == bdrv_find(ds, device)

\* find_block_job: the drive whose backend has a job, NULL when there is none
find_block_job(ds, device) ==
    LET bs == bdrv_find(ds, device)
    IN  IF bs = NULL \/ ~HasJob(Deref(ds, bs)) THEN NULL ELSE bs

\* a paused job is cancelled whatever the flag
job_paused_ignored(paused, force) == FALSE

\* lines 1794-1797: a paused job is cancelled only with the force flag
job_paused_rejects(paused, force) == paused /\ ~force

\* block_job_set_speed of the job layer: the job takes the new limit
block_job_set_speed(ds, job, speed) ==
    [ds EXCEPT ![PosOf(ds, job)].bdrv.job.speed = speed]

\* block_job_pause and block_job_resume of the job layer
block_job_pause(ds, job) ==
    [ds EXCEPT ![PosOf(ds, job)].bdrv.job.paused = TRUE]

block_job_resume(ds, job) ==
    [ds EXCEPT ![PosOf(ds, job)].bdrv.job.paused = FALSE]

\* block_job_complete of the job layer: only a mirror job, neither paused
\* nor cancelled, can be asked to complete
block_job_complete_ok(j) == j.type = "mirror" /\ ~j.paused /\ ~j.cancelled

block_job_complete(ds, job) ==
    [ds EXCEPT ![PosOf(ds, job)].bdrv.job.complete = TRUE]

\* the job commands on the registry ds: [drives, err]
job_set_speed(ds, device, speed) ==
    LET job == find_block_job(ds, device)
    IN  IF job = NULL THEN [drives |-> ds, err |-> "BlockJobNotActive"]
        ELSE [drives |-> block_job_set_speed(ds, job, speed), err |-> ""]

\* a cancel command that ends the job before it returns
job_cancel_waits(ds, device, force) ==
    LET job == find_block_job(ds, device)
    IN  IF job = NULL THEN [drives |-> ds, err |-> "BlockJobNotActive"]
        ELSE [drives |-> [ds EXCEPT ![PosOf(ds, job)].bdrv.job = NoJob,
                                    ![PosOf(ds, job)].bdrv.in_use = FALSE],
              err |-> ""]

job_cancel(ds, device, force) ==
    LET job == find_block_job(ds, device)
    IN  IF job = NULL THEN [drives |-> ds, err |-> "BlockJobNotActive"]
        ELSE IF job_paused_rejects(Deref(ds, job).bdrv.job.paused, force)
        THEN [drives |-> ds, err |-> "BlockJobPaused"]
        ELSE [drives |-> block_job_cancel(ds, job), err |-> ""]

job_pause(ds, device) ==
    LET job == find_block_job(ds, device)
    IN  IF job = NULL THEN [drives |-> ds, err |-> "BlockJobNotActive"]
        ELSE [drives |-> block_job_pause(ds, job), err |-> ""]

job_resume(ds, device) ==
    LET job == find_block_job(ds, device)
    IN  IF job = NULL THEN [drives |-> ds, err |-> "BlockJobNotActive"]
        ELSE [drives |-> block_job_resume(ds, job), err |-> ""]

job_complete(ds, device) ==
    LET job == find_block_job(ds, device)
    IN  IF job = NULL THEN [drives |-> ds, err |-> "BlockJobNotActive"]
        ELSE IF ~block_job_complete_ok(Deref(ds, job).bdrv.job)
        THEN [drives |-> ds, err |-> "BlockJobNotReady"]
        ELSE [drives |-> block_job_complete(ds, job), err |-> ""]

qmp_block_job_set_speed(device, speed) ==
    /\ Idle
    /\ LET r == job_set_speed(drives, device, speed)
       IN  /\ drives' = r.drives
           /\ errp' = r.err
    /\ UNCHANGED <<nextJob, bhs, destroyed, crashed, uaf, events>>
    /\ UNCHANGED <<txnVars, gaVars>>

qmp_block_job_cancel(device, force) ==
    /\ Idle
    /\ LET r == job_cancel(drives, device, force)
       IN  /\ drives' = r.drives
           /\ errp' = r.err
    /\ UNCHANGED <<nextJob, bhs, destroyed, crashed, uaf, events>>
    /\ UNCHANGED <<txnVars, gaVars>>

qmp_block_job_pause(device) ==
    /\ Idle
    /\ LET r == job_pause(drives, device)
       IN  /\ drives' = r.drives
           /\ errp' = r.err
    /\ UNCHANGED <<nextJob, bhs, destroyed, crashed, uaf, events>>
    /\ UNCHANGED <<txnVars, gaVars>>

qmp_block_job_resume(device) ==
    /\ Idle
    /\ LET r == job_resume(drives, device)
       IN  /\ drives' = r.drives
           /\ errp' = r.err
    /\ UNCHANGED <<nextJob, bhs, destroyed, crashed, uaf, events>>
    /\ UNCHANGED <<txnVars, gaVars>>

qmp_block_job_complete(device) ==
    /\ Idle
    /\ LET r == job_complete(drives, device)
       IN  /\ drives' = r.drives
           /\ errp' = r.err
    /\ UNCHANGED <<nextJob, bhs, destroyed, crashed, uaf, events>>
    /\ UNCHANGED <<txnVars, gaVars>>

-----------------------------------------------------------------------------
(* Removable media and resize *)

\* what the guest device and the image layer answer: whether the device has
\* removable media, whether the medium is locked, whether the tray is open,
\* what bdrv_open returns, whether the opened image needs a key, whether the
\* driver can truncate
MediumOk == [removable |-> TRUE, locked |-> FALSE, tray_open |-> FALSE,
             open_ret |-> 0, key_required |-> FALSE, truncate_ok |-> TRUE]

MediumEnv == {MediumOk,
              [MediumOk EXCEPT !.removable = FALSE],
              [MediumOk EXCEPT !.locked = TRUE],
              [MediumOk EXCEPT !.locked = TRUE, !.tray_open = TRUE],
              [MediumOk EXCEPT !.open_ret = -1],
              [MediumOk EXCEPT !.key_required = TRUE],
              [MediumOk EXCEPT !.truncate_ok = FALSE]}

\* bdrv_close of the block layer: the backend has no medium
bdrv_close(ds, bs) == [ds EXCEPT ![PosOf(ds, bs)].bdrv.chain = <<>>]

\* an eject that does not look at the in-use mark
eject_device_unchecked(ds, bs, force, env) ==
    IF ~env.removable THEN [drives |-> ds, err |-> "DeviceNotRemovable"]
    ELSE IF env.locked /\ ~env.tray_open /\ ~force
    THEN [drives |-> ds, err |-> "DeviceLocked"]
    ELSE [drives |-> bdrv_close(ds, bs), err |-> ""]

\* eject_device: [drives, err]
eject_device(ds, bs, force, env) ==
    IF Deref(ds, bs).bdrv.in_use THEN [drives |-> ds, err |-> "DeviceInUse"]
    ELSE IF ~env.removable THEN [drives |-> ds, err |-> "DeviceNotRemovable"]
    ELSE IF env.locked /\ ~env.tray_open /\ ~force
    THEN [drives |-> ds, err |-> "DeviceLocked"]
    ELSE [drives |-> bdrv_close(ds, bs), err |-> ""]

\* qmp_eject as a function of the registry
eject(ds, device, force, env) ==
    LET bs == bdrv_find(ds, device)
    IN  IF bs = NULL THEN [drives |-> ds, err |-> "DeviceNotFound"]
        ELSE eject_device(ds, bs, force, env)

\* qmp_bdrv_open_encrypted with no password: [drives, err]
qmp_bdrv_open_encrypted(ds, bs, filename, bdrv_flags, env) ==
    LET opened == [ds EXCEPT ![PosOf(ds, bs)].bdrv.chain = <<filename>>,
                             ![PosOf(ds, bs)].bdrv.open_flags = bdrv_flags]
    IN  IF env.open_ret < 0 THEN [drives |-> ds, err |-> "OpenFileFailed"]
        ELSE IF env.key_required THEN [drives |-> opened, err |-> "DeviceEncrypted"]
        ELSE [drives |-> opened, err |-> ""]

\* qmp_change_blockdev as a function of the registry: [drives, err]
change_blockdev(ds, device, filename, format, env) ==
    LET bs == bdrv_find(ds, device)
    IN  IF bs = NULL THEN [drives |-> ds, err |-> "DeviceNotFound"]
        ELSE IF format /= "" /\ format \notin Formats
        THEN [drives |-> ds, err |-> "InvalidBlockFormat"]
        ELSE
        LET ej == eject_device(ds, bs, FALSE, env)
            d == Deref(ej.drives, bs)
            bdrv_flags == (IF d.bdrv.read_only THEN {} ELSE {"BDRV_O_RDWR"})
                          \cup (d.bdrv.open_flags \cap {"BDRV_O_SNAPSHOT"})
        IN  IF ej.err /= "" THEN [drives |-> ds, err |-> ej.err]
            ELSE qmp_bdrv_open_encrypted(ej.drives, bs, filename, bdrv_flags, env)

\* bdrv_truncate of the block layer: the error code, 0 when the image is resized
bdrv_truncate(d, env) ==
    IF ~bdrv_is_inserted(d) THEN "ENOMEDIUM"
    ELSE IF ~env.truncate_ok THEN "ENOTSUP"
    ELSE IF d.bdrv.read_only THEN "EACCES"
    ELSE IF d.bdrv.in_use THEN "EBUSY"
    ELSE "0"

\* qmp_block_resize as a function of the registry: [drives, err, calls], calls
\* being the block-layer calls it makes on the way, in order
block_resize(ds, device, size, env) ==
    LET bs == bdrv_find(ds, device)
        ret == bdrv_truncate(Deref(ds, bs), env)
        out(dr, e) == [drives |-> dr, err |-> e,
                       calls |-> <<"bdrv_drain_all", "bdrv_truncate">>]
    IN  IF bs = NULL
        THEN [drives |-> ds, err |-> "DeviceNotFound", calls |-> <<>>]
        ELSE IF size < 0
        THEN [drives |-> ds, err |-> "InvalidParameterValue", calls |-> <<>>]
        ELSE CASE ret = "0" ->
                    out([ds EXCEPT ![PosOf(ds, bs)].bdrv.length = size], "")
               [] ret = "ENOMEDIUM" -> out(ds, "DeviceHasNoMedium")
               [] ret = "ENOTSUP" -> out(ds, "Unsupported")
               [] ret = "EACCES" -> out(ds, "DeviceIsReadOnly")
               [] ret = "EBUSY" -> out(ds, "DeviceInUse")

qmp_eject(device, force, env) ==
    /\ Idle
    /\ LET r == eject(drives, device, force, env)
       IN  /\ drives' = r.drives
           /\ errp' = r.err
    /\ UNCHANGED <<nextJob, bhs, destroyed, crashed, uaf, events>>
    /\ UNCHANGED <<txnVars, gaVars>>

qmp_change_blockdev(device, filename, format, env) ==
    /\ Idle
    /\ LET r == change_blockdev(drives, device, filename, format, env)
       IN  /\ drives' = r.drives
           /\ errp' = r.err
    /\ UNCHANGED <<nextJob, bhs, destroyed, crashed, uaf, events>>
    /\ UNCHANGED <<txnVars, gaVars>>

qmp_block_resize(device, size, env) ==
    /\ Idle
    /\ LET r == block_resize(drives, device, size, env)
       IN  /\ drives' = r.drives
           /\ errp' = r.err
    /\ UNCHANGED <<nextJob, bhs, destroyed, crashed, uaf, events>>
    /\ UNCHANGED <<txnVars, gaVars>>

-----------------------------------------------------------------------------
(* I/O throttling: qmp_block_set_io_throttle *)

\* a reconciliation that never reschedules the limiter's timer
io_limits_reconcile_lazy(b) ==
    IF ~b.io_limits_enabled /\ bdrv_io_limits_enabled(b.io_limits)
    THEN [b EXCEPT !.io_limits_enabled = TRUE, !.block_timer = "idle"]
    ELSE IF b.io_limits_enabled /\ ~bdrv_io_limits_enabled(b.io_limits)
    THEN [b EXCEPT !.io_limits_enabled = FALSE, !.block_timer = "NULL"]
    ELSE b

\* lines 1287-1295: bdrv_io_limits_enable creates the limiter's timer,
\* bdrv_io_limits_disable deletes it, qemu_mod_timer makes it due now
io_limits_reconcile(b) ==
    IF ~b.io_limits_enabled /\ bdrv_io_limits_enabled(b.io_limits)
    THEN [b EXCEPT !.io_limits_enabled = TRUE, !.block_timer = "idle"]
    ELSE IF b.io_limits_enabled /\ ~bdrv_io_limits_enabled(b.io_limits)
    THEN [b EXCEPT !.io_limits_enabled = FALSE, !.block_timer = "NULL"]
    ELSE IF b.block_timer /= "NULL" THEN [b EXCEPT !.block_timer = "now"]
    ELSE b

\* a request that stores the limits before it validates them
block_set_io_throttle_store_first(ds, device, io_limits) ==
    LET bs == bdrv_find(ds, device)
    IN  IF bs = NULL THEN [drives |-> ds, err |-> "DeviceNotFound"]
        ELSE LET i == PosOf(ds, bs)
                 b == [ds[i].bdrv EXCEPT !.io_limits = io_limits]
             IN  IF ~do_check_io_limits(io_limits)
                 THEN [drives |-> [ds EXCEPT ![i].bdrv = b], err |-> "GenericError"]
                 ELSE [drives |-> [ds EXCEPT ![i].bdrv = io_limits_reconcile(b)],
                       err |-> ""]

\* qmp_block_set_io_throttle as a function of the registry: [drives, err]
block_set_io_throttle(ds, device, io_limits) ==
    LET bs == bdrv_find(ds, device)
    IN  IF bs = NULL THEN [drives |-> ds, err |-> "DeviceNotFound"]
        ELSE IF ~do_check_io_limits(io_limits)
        THEN [drives |-> ds, err |-> "GenericError"]
        ELSE LET i == PosOf(ds, bs)
                 b == [ds[i].bdrv EXCEPT !.io_limits = io_limits]
             IN  [drives |-> [ds EXCEPT ![i].bdrv = io_limits_reconcile(b)],
                  err |-> ""]

qmp_block_set_io_throttle(device, io_limits) ==
    /\ Idle
    /\ LET r == block_set_io_throttle(drives, device, io_limits)
       IN  /\ drives' = r.drives
           /\ errp' = r.err
    /\ UNCHANGED <<nextJob, bhs, destroyed, crashed, uaf, events>>
    /\ UNCHANGED <<txnVars, gaVars>>

\* the limiter's timer fires: a rescheduled timer has run
block_timer_cb(p) ==
    /\ Idle
    /\ PosOf(drives, p) /= 0
    /\ Deref(drives, p).bdrv.block_timer = "now"
    /\ drives' = [drives EXCEPT ![PosOf(drives, p)].bdrv.block_timer = "idle"]
    /\ UNCHANGED <<nextJob, bhs, destroyed, crashed, uaf, events, errp>>
    /\ UNCHANGED <<txnVars, gaVars>>

-----------------------------------------------------------------------------
(* The transaction engine: qmp_transaction *)

\* the BdrvActionOps table: which operations each variant defines
actions(kind) ==
    CASE kind = "blockdev-snapshot-sync" ->
             [prepare |-> TRUE, commit |-> TRUE, abort |-> TRUE, clean |-> FALSE]
      [] kind = "drive-backup" ->
             [prepare |-> TRUE, commit |-> FALSE, abort |-> TRUE, clean |-> FALSE]
      [] kind = "abort" ->
             [prepare |-> TRUE, commit |-> TRUE, abort |-> FALSE, clean |-> FALSE]

TransactionActions ==
    [kind : {"blockdev-snapshot-sync"}, device : {"ide0-hd0"}]
    \cup [kind : {"drive-backup"}, device : {"ide0-hd0", "ide0-hd1"}]
    \cup [kind : {"abort"}, device : {""}]

TransactionActionLists ==
    UNION {[1..n -> TransactionActions] : n \in 0..MaxActions}

\* what the collaborators of a prepare answer
PrepareOk == [flush_ok |-> TRUE, create_ok |-> TRUE, open_ok |-> TRUE,
              start_ok |-> TRUE]

PrepareEnv == {PrepareOk,
               [PrepareOk EXCEPT !.flush_ok = FALSE],
               [PrepareOk EXCEPT !.create_ok = FALSE],
               [PrepareOk EXCEPT !.open_ok = FALSE],
               [PrepareOk EXCEPT !.start_ok = FALSE]}

\* the snapshot file the k-th action names
SnapshotFile(k) == "snap" \o ToString(k) \o ".img"

\* g_malloc0(ops->instance_size): the zeroed state record of the k-th action
NewState(k, kind) ==
    [action |-> k, kind |-> kind, old_bs |-> NULL, new_bs |-> "NULL",
     new_flags |-> {}, backing_file |-> "", bs |-> NULL, job |-> 0]

\* external_snapshot_prepare: [state, err]
external_snapshot_prepare(ds, st, action, env) ==
    LET old_bs == bdrv_find(ds, action.device)
        found == [st EXCEPT !.old_bs = old_bs]
        flags == Deref(ds, old_bs).bdrv.open_flags
    IN  IF old_bs = NULL THEN [state |-> found, err |-> "DeviceNotFound"]
        ELSE IF ~bdrv_is_inserted(Deref(ds, old_bs))
        THEN [state |-> found, err |-> "DeviceHasNoMedium"]
        ELSE IF Deref(ds, old_bs).bdrv.in_use
        THEN [state |-> found, err |-> "DeviceInUse"]
        ELSE IF ~Deref(ds, old_bs).bdrv.read_only /\ ~env.flush_ok
        THEN [state |-> found, err |-> "IOError"]
        ELSE IF ~env.create_ok THEN [state |-> found, err |-> "CreateFailed"]
        ELSE
        \* bdrv_img_create writes old_bs->filename into the new image (953-958)
        LET created == [found EXCEPT
                           !.backing_file = Deref(ds, old_bs).bdrv.chain[1]]
        IN  IF ~env.open_ok
            THEN [state |-> [created EXCEPT !.new_bs = "closed"], err |-> "OpenFailed"]
            ELSE [state |-> [created EXCEPT
                                !.new_bs = "open",
                                !.new_flags = flags \cup {"BDRV_O_NO_BACKING"}],
                  err |-> ""]

\* a commit whose reopen keeps the read-write bit
external_snapshot_commit_rw(ds, st) ==
    [drives |-> [ds EXCEPT ![PosOf(ds, st.old_bs)].bdrv.chain =
                               <<SnapshotFile(st.action)>> \o @],
     state |-> [st EXCEPT !.new_bs = "appended",
                          !.new_flags = @ \ {"BDRV_O_NO_BACKING"}]]

\* external_snapshot_commit: bdrv_append puts the new image in front of the old
\* one, then the reopen without BDRV_O_RDWR: [drives, state]
external_snapshot_commit(ds, st) ==
    [drives |-> [ds EXCEPT ![PosOf(ds, st.old_bs)].bdrv.chain =
                               <<SnapshotFile(st.action)>> \o @],
     state |-> [st EXCEPT !.new_bs = "appended",
                          !.new_flags = @ \ {"BDRV_O_RDWR", "BDRV_O_NO_BACKING"}]]

\* external_snapshot_abort: the new backend, if any, is deleted
external_snapshot_abort(st) ==
    IF st.new_bs /= "NULL" THEN [st EXCEPT !.new_bs = "deleted"] ELSE st

\* drive_backup_prepare: [drives, state, err, started]
drive_backup_prepare(ds, st, action, env, jid) ==
    LET r == drive_backup(ds, action.device, "", "absolute",
                          [len_ok |-> TRUE, create_ok |-> env.create_ok,
                           open_ok |-> env.open_ok, start_ok |-> env.start_ok], jid)
        bs == bdrv_find(r.drives, action.device)
    IN  IF r.err /= ""
        THEN [drives |-> ds, state |-> [st EXCEPT !.bs = NULL, !.job = 0],
              err |-> r.err, started |-> FALSE]
        ELSE [drives |-> r.drives,
              state |-> [st EXCEPT !.bs = bs, !.job = Deref(r.drives, bs).bdrv.job.id],
              err |-> "", started |-> TRUE]

\* line 1041, the guard of drive_backup_abort: bs && bs->job && bs->job ==
\* state->job compares addresses. A job that has ended was freed by the job
\* layer, and state->job still holds its address: reuse says whether the
\* allocator gave that address to the job the backend has now.
drive_backup_abort_cancels(ds, st, reuse) ==
    /\ st.bs /= NULL
    /\ PosOf(ds, st.bs) /= 0
    /\ HasJob(Deref(ds, st.bs))
    /\ \/ Deref(ds, st.bs).bdrv.job.id = st.job
       \/ st.job /= 0 /\ reuse

\* block_job_cancel_sync of the job layer: the job is cancelled and has
\* finished, its completion callback has run, when the call returns
block_job_cancel_sync(ds, q, ev, bs) ==
    block_job_completed(block_job_cancel(ds, bs), q, ev, bs)

\* an abort that leaves the backup job running
drive_backup_abort_keep(ds, q, ev, st, reuse) ==
    [drives |-> ds, bhs |-> q, events |-> ev]

\* drive_backup_abort: [drives, bhs, events]
drive_backup_abort(ds, q, ev, st, reuse) ==
    IF drive_backup_abort_cancels(ds, st, reuse)
    THEN block_job_cancel_sync(ds, q, ev, st.bs)
    ELSE [drives |-> ds, bhs |-> q, events |-> ev]

\* an abort action whose prepare reports no error
abort_prepare_silent(common) == ""

\* abort_prepare
abort_prepare(common) == "Transaction aborted using Abort action"

Call(op, k) == [op |-> op, k |-> k]

SnapshotsOn(list, device) ==
    Cardinality({k \in 1..Len(list) :
                    list[k].kind = "blockdev-snapshot-sync" /\ list[k].device = device})

BackupsIn(list) ==
    Cardinality({k \in 1..Len(list) : list[k].kind = "drive-backup"})

\* the commit loop (lines 1115-1119): [drives, states, calls, crashed]
RECURSIVE commit_loop(_, _, _, _)
commit_loop(ds, states, cs, i) ==
    IF i > Len(states)
    THEN [drives |-> ds, states |-> states, calls |-> cs, crashed |-> FALSE]
    ELSE LET st == states[i]
         IN  IF ~actions(st.kind).commit
             THEN commit_loop(ds, states, cs, i + 1)
             ELSE IF st.kind = "abort"
             THEN \* abort_commit: g_assert_not_reached()
                  [drives |-> ds, states |-> states,
                   calls |-> Append(cs, Call("commit", st.action)),
                   crashed |-> TRUE]
             ELSE LET r == external_snapshot_commit(ds, st)
                  IN  commit_loop(r.drives, [states EXCEPT ![i] = r.state],
                                  Append(cs, Call("commit", st.action)), i + 1)

\* the abort loop at delete_and_fail (lines 1129-1133):
\* [drives, bhs, events, states, calls]
RECURSIVE abort_loop(_, _, _, _, _, _, _)
abort_loop(ds, q, ev, states, cs, i, reuse) ==
    IF i > Len(states)
    THEN [drives |-> ds, bhs |-> q, events |-> ev, states |-> states, calls |-> cs]
    ELSE LET st == states[i]
         IN  IF ~actions(st.kind).abort
             THEN abort_loop(ds, q, ev, states, cs, i + 1, reuse)
             ELSE IF st.kind = "blockdev-snapshot-sync"
             THEN abort_loop(ds, q, ev,
                             [states EXCEPT ![i] = external_snapshot_abort(st)],
                             Append(cs, Call("abort", st.action)), i + 1, reuse)
             ELSE LET r == drive_backup_abort(ds, q, ev, st, reuse)
                  IN  abort_loop(r.drives, r.bhs, r.events, states,
                                 Append(cs, Call("abort", st.action)), i + 1, reuse)

\* the loop at exit (lines 1135-1140): clean, then g_free(state)
RECURSIVE exit_loop(_, _, _)
exit_loop(states, cs, i) ==
    IF i > Len(states) THEN cs
    ELSE exit_loop(states,
                   cs \o (IF actions(states[i].kind).clean
                          THEN <<Call("clean", states[i].action)>> ELSE <<>>)
                      \o <<Call("g_free", states[i].action)>>,
                   i + 1)

\* a commit loop that runs on into delete_and_fail
after_commit_fallthrough(ds, q, ev, states, cs) ==
    abort_loop(ds, q, ev, states, cs, 1, FALSE)

\* "success; goto exit" (lines 1121-1122): nothing between the commit loop
\* and the loop at exit
after_commit(ds, q, ev, states, cs) ==
    [drives |-> ds, bhs |-> q, events |-> ev, states |-> states, calls |-> cs]

\* a prepare loop that goes on to the next action after a failure
prepare_goto_ignoring(err, k, n) ==
    IF k = n THEN (IF err /= "" THEN "abort" ELSE "commit") ELSE "prepare"

\* a prepare loop that takes the failure path after the last prepare succeeded
prepare_goto_abort(err, k, n) ==
    IF err /= "" \/ k = n THEN "abort" ELSE "prepare"

\* a worklist the entry joins only once its prepare has succeeded
worklist_if_prepared(states, st, err) ==
    IF err = "" THEN Append(states, st) ELSE states

\* QSIMPLEQ_INSERT_TAIL (line 1106): the entry joins the worklist whether or
\* not its prepare succeeds
worklist_after_prepare(states, st, err) == Append(states, st)

\* where the prepare loop goes after the k-th of n prepares (lines 1108-1112)
prepare_goto(err, k, n) ==
    IF err /= "" THEN "abort"
    ELSE IF k = n THEN "commit"
    ELSE "prepare"

\* qmp_transaction is entered: bdrv_drain_all, then the prepare loop
TxnBeginWithin(list, depth) ==
    /\ Idle
    /\ nextJob + BackupsIn(list) <= MaxJobs + 1
    /\ \A i \in 1..Len(drives) :
          Len(drives[i].bdrv.chain) + SnapshotsOn(list, drives[i].bdrv.device_name)
              <= depth
    /\ pc' = IF list = <<>> THEN "commit" ELSE "prepare"
    /\ dev_list' = list
    /\ dev_entry' = 1
    /\ snap_bdrv_states' = <<>>
    /\ local_err' = ""
    /\ calls' = <<Call("bdrv_drain_all", 0)>>
    /\ pre' = [drives |-> drives, bhs |-> bhs]
    /\ UNCHANGED <<regVars, init_call, gaVars>>

TxnBegin(list) == TxnBeginWithin(list, MaxChain)

\* one turn of the prepare loop (lines 1093-1113)
TxnPrepare(env) ==
    /\ pc = "prepare" /\ ~crashed
    /\ LET k == dev_entry
           dev_info == dev_list[k]
           st == NewState(k, dev_info.kind)
           r == CASE dev_info.kind = "blockdev-snapshot-sync" ->
                       LET x == external_snapshot_prepare(drives, st, dev_info, env)
                       IN  [drives |-> drives, state |-> x.state, err |-> x.err,
                            started |-> FALSE]
                  [] dev_info.kind = "drive-backup" ->
                       drive_backup_prepare(drives, st, dev_info, env, nextJob)
                  [] dev_info.kind = "abort" ->
                       [drives |-> drives, state |-> st, err |-> abort_prepare(st),
                        started |-> FALSE]
       IN  /\ snap_bdrv_states' = worklist_after_prepare(snap_bdrv_states, r.state, r.err)
           /\ calls' = calls \o <<Call("alloc", k), Call("prepare", k)>>
           /\ drives' = r.drives
           /\ nextJob' = IF r.started THEN nextJob + 1 ELSE nextJob
           /\ local_err' = r.err
           /\ dev_entry' = k + 1
           /\ pc' = prepare_goto(r.err, k, Len(dev_list))
    /\ UNCHANGED <<bhs, destroyed, crashed, uaf, events, errp, dev_list, pre,
                   init_call, gaVars>>

\* the commit loop, then the loop at exit
TxnCommit ==
    /\ pc = "commit" /\ ~crashed
    /\ LET c == commit_loop(drives, snap_bdrv_states, calls, 1)
           r == after_commit(c.drives, bhs, events, c.states, c.calls)
       IN  IF c.crashed
           THEN /\ crashed' = TRUE
                /\ calls' = c.calls
                /\ UNCHANGED <<drives, bhs, events, snap_bdrv_states, pc>>
           ELSE /\ drives' = r.drives
                /\ bhs' = r.bhs
                /\ events' = r.events
                /\ snap_bdrv_states' = r.states
                /\ calls' = exit_loop(r.states, r.calls, 1)
                /\ pc' = "done"
                /\ UNCHANGED crashed
    /\ UNCHANGED <<nextJob, errp, destroyed, uaf, dev_list, dev_entry,
                   local_err, pre, init_call, gaVars>>

\* the abort loop at delete_and_fail, then the loop at exit
TxnAbort(reuse) ==
    /\ pc = "abort" /\ ~crashed
    /\ LET r == abort_loop(drives, bhs, events, snap_bdrv_states, calls, 1, reuse)
       IN  /\ drives' = r.drives
           /\ bhs' = r.bhs
           /\ events' = r.events
           /\ snap_bdrv_states' = r.states
           /\ calls' = exit_loop(r.states, r.calls, 1)
    /\ pc' = "done"
    /\ UNCHANGED <<nextJob, errp, destroyed, crashed, uaf, dev_list, dev_entry,
                   local_err, pre, init_call, gaVars>>

\* qmp_transaction has returned; the caller goes on
TxnReturn ==
    /\ pc = "done" /\ ~crashed
    /\ pc' = "idle"
    /\ dev_list' = <<>>
    /\ dev_entry' = 1
    /\ snap_bdrv_states' = <<>>
    /\ local_err' = ""
    /\ calls' = <<>>
    /\ pre' = [drives |-> <<>>, bhs |-> <<>>]
    /\ UNCHANGED <<regVars, init_call, gaVars>>

\* a job this transaction started finishes while a later prepare waits for I/O
TxnJobComplete(p) ==
    /\ pc = "prepare" /\ ~crashed
    /\ PosOf(drives, p) /= 0
    /\ HasJob(Deref(drives, p))
    /\ \E i \in 1..Len(snap_bdrv_states) :
          snap_bdrv_states[i].job = Deref(drives, p).bdrv.job.id
    /\ LET r == block_job_completed(drives, bhs, events, p)
       IN  /\ drives' = r.drives
           /\ bhs' = r.bhs
           /\ events' = r.events
    /\ UNCHANGED <<nextJob, errp, destroyed, crashed, uaf>>
    /\ UNCHANGED <<txnVars, gaVars>>

-----------------------------------------------------------------------------
(* Admission and deletion as steps of the registry *)

DefaultOpts ==
    [id |-> "", if_ |-> "", bus |-> 0, unit |-> -1, index |-> -1,
     cyls |-> 0, heads |-> 0, secs |-> 0, trans |-> "", media |-> "",
     discard |-> "", format |-> "",
     cache_writeback |-> TRUE, cache_direct |-> FALSE, cache_no_flush |-> TRUE,
     snapshot |-> FALSE, read_only |-> FALSE, copy_on_read |-> FALSE,
     file |-> "", has_driver_specific_opts |-> FALSE,
     io_limits |-> BLOCK_IO_LIMIT_ZERO, werror |-> "", rerror |-> "", addr |-> "",
     explicit |-> {}]

\* lines 373-375: qemu_opt_get_number yields the number given or, for an
\* option that is absent, its default; explicit names the address options
\* that are present. An option given with a value other than its default is
\* present.
Given(o) ==
    [o EXCEPT !.explicit = @ \cup {f \in {"bus", "unit", "index"} :
                                      o[f] /= DefaultOpts[f]}]

\* the addresses a drive is asked for: by bus and unit, by index, or neither
AddressOpts ==
    {Given([DefaultOpts EXCEPT !.if_ = "ide", !.bus = b, !.unit = u]) :
        b \in {0, 1}, u \in {-1, 0, 2}}
    \cup {Given([DefaultOpts EXCEPT !.if_ = "scsi", !.index = x]) : x \in {0, 1, 7, -8}}
    \cup {Given(o) : o \in {
          [DefaultOpts EXCEPT !.if_ = "scsi", !.index = 1,
                              !.explicit = {"index", "bus"}],
          [DefaultOpts EXCEPT !.if_ = "scsi", !.index = 1,
                              !.explicit = {"index", "unit"}],
          [DefaultOpts EXCEPT !.if_ = "ide", !.index = 3],
          [DefaultOpts EXCEPT !.if_ = "none", !.index = 1],
          [DefaultOpts EXCEPT !.if_ = "none", !.index = 0],
          [DefaultOpts EXCEPT !.if_ = "none"],
          [DefaultOpts EXCEPT !.if_ = "none", !.bus = 1, !.unit = 1],
          [DefaultOpts EXCEPT !.if_ = "scsi", !.index = 1, !.bus = 1],
          [DefaultOpts EXCEPT !.if_ = "scsi", !.index = 1, !.unit = 1]}}

\* one option at a time away from the defaults
VariantOpts ==
    {[DefaultOpts EXCEPT !.if_ = "bogus"],
     [DefaultOpts EXCEPT !.cyls = 0, !.heads = 10],
     [DefaultOpts EXCEPT !.cyls = 2, !.heads = 10, !.secs = 4],
     [DefaultOpts EXCEPT !.cyls = 2, !.heads = 10, !.secs = 4, !.trans = "lba"],
     [DefaultOpts EXCEPT !.trans = "lba"],
     [DefaultOpts EXCEPT !.media = "cdrom", !.file = "a.img"],
     [DefaultOpts EXCEPT !.media = "cdrom", !.cyls = 2, !.heads = 10, !.secs = 4],
     [DefaultOpts EXCEPT !.media = "tape"],
     [DefaultOpts EXCEPT !.discard = "unmap", !.file = "a.img"],
     [DefaultOpts EXCEPT !.discard = "maybe"],
     [DefaultOpts EXCEPT !.format = "?"],
     [DefaultOpts EXCEPT !.io_limits.bps = 100, !.io_limits.bps_rd = 50],
     [DefaultOpts EXCEPT !.io_limits.bps_rd = 50],
     [DefaultOpts EXCEPT !.io_limits.iops_wr = -1],
     [DefaultOpts EXCEPT !.werror = "enospc"],
     [DefaultOpts EXCEPT !.rerror = "enospc"],
     [DefaultOpts EXCEPT !.if_ = "floppy", !.werror = "stop"],
     [DefaultOpts EXCEPT !.addr = "4"],
     [DefaultOpts EXCEPT !.if_ = "virtio", !.addr = "4"],
     [DefaultOpts EXCEPT !.read_only = TRUE, !.file = "a.img"],
     [DefaultOpts EXCEPT !.if_ = "scsi", !.read_only = TRUE, !.file = "a.img"],
     [DefaultOpts EXCEPT !.id = "d0"],
     [DefaultOpts EXCEPT !.has_driver_specific_opts = TRUE],
     [DefaultOpts EXCEPT !.snapshot = TRUE, !.file = "a.img"]}

\* a drive with an image file, on the default bus kind
FileOpts == [DefaultOpts EXCEPT !.file = "a.img"]

\* what bdrv_open returns, and whether the run state is an incoming migration
InitEnv == {[open_ret |-> 0, inmigrate |-> FALSE],
            [open_ret |-> -1, inmigrate |-> FALSE],
            [open_ret |-> 0, inmigrate |-> TRUE]}

\* the admissions asked of the registry: the image is opened only when a
\* file is named
RegRequests ==
    {<<o, [open_ret |-> 0, inmigrate |-> FALSE]>> : o \in AddressOpts}
    \cup {<<FileOpts, env>> : env \in InitEnv}

\* g_malloc0: an address no live DriveInfo and no scheduled release holds
NewPtr(ds, q) ==
    Min({p \in 1..(Len(ds) + Len(q) + 1) :
            p \notin {ds[i].ptr : i \in 1..Len(ds)} \cup Range(q)})

\* drive_init / blockdev_init is called with these options; IF_IDE is the
\* default bus kind of the machine
Admit(o, env) ==
    /\ Idle
    /\ Len(drives) < MaxDrives
    /\ drives' = blockdev_init(drives, NewPtr(drives, bhs), o, IF_IDE, env).drives
    /\ UNCHANGED <<nextJob, bhs, destroyed, crashed, uaf, events, errp>>
    /\ UNCHANGED <<txnVars, gaVars>>

\* blockdev_init called once, its arguments and result kept
blockdev_init_call(o, env) ==
    /\ Idle
    /\ ~init_call.called
    /\ LET r == blockdev_init(drives, NewPtr(drives, bhs), o, IF_IDE, env)
       IN  /\ drives' = r.drives
           /\ init_call' = [opts |-> o, env |-> env, before |-> drives,
                            ret |-> r.ret, allocated |-> r.allocated,
                            called |-> TRUE]
    /\ UNCHANGED <<regVars_but_drives, pc, dev_list, dev_entry, snap_bdrv_states,
                   local_err, calls, pre, gaVars>>

-----------------------------------------------------------------------------
(* The guest agent's channel: src/qga/channel.h *)

\* clients created in one run
MaxClients == 6
\* bytes in one buffer handed to ga_channel_write_all
MaxLen == 3

ChannelTypes ==
    {"GA_CHANNEL_HOST", "GA_CHANNEL_SESSION_CLIENT", "GA_CHANNEL_SESSION_HOST"}

ChannelMethods ==
    {"GA_CHANNEL_VIRTIO_SERIAL", "GA_CHANNEL_ISA_SERIAL", "GA_CHANNEL_UNIX_LISTEN"}

\* ga_channel_client_add(chl, fd): [chl, ret]. A client is the record at the
\* position of its id in clients; host is the id of client.host, 0 for NULL.
\* A failed g_assert ends the process: failed.
ga_channel_client_add(c, encoding_ok) ==
    IF ~encoding_ok THEN [chl |-> c, ret |-> -1]
    ELSE LET id == c.counter
             chc == [channel |-> TRUE, shutdowns |-> 0, watch |-> TRUE,
                     freed |-> FALSE]
             c1 == [c EXCEPT !.clients = Append(@, chc), !.counter = @ + 1]
         IN  IF c.type = "GA_CHANNEL_SESSION_CLIENT"
             THEN [chl |-> [c1 EXCEPT !.sessions = @ \cup {id}], ret |-> 0]
             ELSE IF c.host /= 0
             THEN [chl |-> [c EXCEPT !.failed = TRUE], ret |-> 0]
             ELSE [chl |-> [c1 EXCEPT !.host = id], ret |-> 0]

\* ga_channel_listen_add(chl, listen_fd, create): one more watch on the
\* listening channel
ga_channel_listen_add(c) == [c EXCEPT !.channel = TRUE, !.watches = @ + 1]

\* a client that is closed without the listener accepting again
ga_channel_client_close_deaf(c, id) ==
    IF ~c.clients[id].channel THEN [c EXCEPT !.failed = TRUE]
    ELSE LET c1 == [c EXCEPT !.clients[id].channel = FALSE,
                             !.clients[id].shutdowns = @ + 1]
         IN  IF c.type = "GA_CHANNEL_SESSION_CLIENT"
             THEN [c1 EXCEPT !.sessions = @ \ {id}]
             ELSE [c1 EXCEPT !.host = 0]

\* ga_channel_client_close(chc)
ga_channel_client_close(c, id) ==
    IF ~c.clients[id].channel THEN [c EXCEPT !.failed = TRUE]
    ELSE LET c1 == [c EXCEPT !.clients[id].channel = FALSE,
                             !.clients[id].shutdowns = @ + 1]
             c2 == IF c.type = "GA_CHANNEL_SESSION_CLIENT"
                   THEN [c1 EXCEPT !.sessions = @ \ {id}]
                   ELSE [c1 EXCEPT !.host = 0]
         IN  IF c2.method = "GA_CHANNEL_UNIX_LISTEN" /\ c2.channel
                /\ c2.type /= "GA_CHANNEL_SESSION_CLIENT"
             THEN ga_channel_listen_add(c2)
             ELSE c2

\* ga_channel_client_free(chc)
ga_channel_client_free(c, id) ==
    LET c1 == IF c.clients[id].channel THEN ga_channel_client_close(c, id) ELSE c
    IN  [c1 EXCEPT !.clients[id].freed = TRUE]

\* ga_channel_new and ga_channel_open, every call of theirs succeeding
ga_channel_new(method, event_cb, channel_type) ==
    LET c == [method |-> method, type |-> channel_type, event_cb |-> event_cb,
              channel |-> FALSE, watches |-> 0, host |-> 0, sessions |-> {},
              clients |-> <<>>, counter |-> 1, failed |-> FALSE]
    IN  IF method = "GA_CHANNEL_UNIX_LISTEN"
        THEN ga_channel_listen_add(c)
        ELSE ga_channel_client_add(c, TRUE).chl

\* an accept callback that keeps its watch whatever happened
ga_channel_listen_accept_keep(accept_ok, encoding_ok) ==
    /\ ~chl.failed
    /\ chl.watches >= 1
    /\ chl.counter <= MaxClients
    /\ IF ~accept_ok THEN UNCHANGED chl
       ELSE LET r == ga_channel_client_add(chl, encoding_ok)
            IN  IF r.ret /= 0 THEN UNCHANGED chl ELSE chl' = r.chl
    /\ UNCHANGED <<blockVars, wr>>

\* ga_channel_listen_accept: the watch on the listening channel fires. The
\* callback returns !accepted, and glib removes a watch whose callback
\* returns FALSE.
ga_channel_listen_accept(accept_ok, encoding_ok) ==
    /\ ~chl.failed
    /\ chl.watches >= 1
    /\ chl.counter <= MaxClients
    /\ IF ~accept_ok THEN UNCHANGED chl
       ELSE LET r == ga_channel_client_add(chl, encoding_ok)
                accepted == r.ret = 0 /\ chl.type /= "GA_CHANNEL_SESSION_CLIENT"
            IN  IF r.ret /= 0 THEN UNCHANGED chl
                ELSE chl' = [r.chl EXCEPT !.watches = IF accepted /\ ~r.chl.failed
                                                     THEN @ - 1 ELSE @]
    /\ UNCHANGED <<blockVars, wr>>

\* ga_channel_client_event: the watch of client id fires and the listener's
\* callback, when there is one, answers client_cont
ga_channel_client_event(id, client_cont) ==
    /\ ~chl.failed
    /\ id \in 1..Len(chl.clients)
    /\ chl.clients[id].watch
    /\ IF chl.event_cb /\ ~client_cont
       THEN chl' = [ga_channel_client_free(ga_channel_client_close(chl, id), id)
                       EXCEPT !.clients[id].watch = FALSE]
       ELSE UNCHANGED chl
    /\ UNCHANGED <<blockVars, wr>>

\* ga_channel_write_all(chc, buf, size) is entered: written = 0, status
\* normal, and the loop runs while size is not zero
WriteIdle == [buf |-> <<>>, size |-> 0, sent |-> <<>>, flushed |-> FALSE,
              status |-> "G_IO_STATUS_NORMAL", pc |-> "idle"]

ga_channel_write_all(buf) ==
    /\ wr.pc = "idle"
    /\ wr' = [WriteIdle EXCEPT !.buf = buf, !.size = Len(buf),
                               !.pc = IF Len(buf) = 0 THEN "flush" ELSE "loop"]
    /\ UNCHANGED <<blockVars, chl>>

\* one turn of the loop (lines 371-382): g_io_channel_write_chars is handed
\* buf and size, takes the first written bytes of buf and answers status,
\* with err set or not
write_chars(status, written, err) ==
    /\ wr.pc = "loop"
    /\ written \in 0..wr.size
    /\ (status = "G_IO_STATUS_NORMAL" /\ ~err) => written >= 1
    /\ LET sent == wr.sent \o SubSeq(wr.buf, 1, written)
       IN  IF err
           THEN wr' = [wr EXCEPT !.sent = sent, !.status = "G_IO_STATUS_ERROR",
                                 !.pc = "returned"]
           ELSE IF status /= "G_IO_STATUS_NORMAL"
           THEN wr' = [wr EXCEPT !.sent = sent, !.status = status, !.pc = "returned"]
           ELSE wr' = [wr EXCEPT !.sent = sent, !.status = status,
                                 !.size = @ - written,
                                 !.pc = IF wr.size - written = 0 THEN "flush"
                                        ELSE "loop"]
    /\ UNCHANGED <<blockVars, chl>>

\* lines 384-390: g_io_channel_flush after a loop that ended normally
write_flush(status, err) ==
    /\ wr.pc = "flush"
    /\ wr' = [wr EXCEPT !.status = IF err THEN "G_IO_STATUS_ERROR" ELSE status,
                        !.flushed = ~err /\ status = "G_IO_STATUS_NORMAL",
                        !.pc = "returned"]
    /\ UNCHANGED <<blockVars, chl>>

\* the caller has the status and may write again
write_return ==
    /\ wr.pc = "returned"
    /\ wr' = WriteIdle
    /\ UNCHANGED <<blockVars, chl>>

-----------------------------------------------------------------------------
(* Specifications *)

NoCall == [opts |-> DefaultOpts, env |-> [open_ret |-> 0, inmigrate |-> FALSE],
           before |-> <<>>, ret |-> NULL, allocated |-> FALSE, called |-> FALSE]

NoTxn ==
    /\ pc = "idle"
    /\ dev_list = <<>>
    /\ dev_entry = 1
    /\ snap_bdrv_states = <<>>
    /\ local_err = ""
    /\ calls = <<>>
    /\ pre = [drives |-> <<>>, bhs |-> <<>>]
    /\ init_call = NoCall

NoJobs ==
    /\ nextJob = 1
    /\ bhs = <<>>
    /\ destroyed = {}
    /\ crashed = FALSE
    /\ uaf = FALSE
    /\ events = EmptyBag
    /\ errp = ""

\* the guest agent: no listener is studied, no write is in progress
NoAgent ==
    /\ chl = ga_channel_new("GA_CHANNEL_UNIX_LISTEN", TRUE, "GA_CHANNEL_HOST")
    /\ wr = WriteIdle

\* a listener of each method and type, with and without an event callback
InitChannel ==
    /\ drives = <<>>
    /\ NoJobs
    /\ NoTxn
    /\ wr = WriteIdle
    /\ \E m \in ChannelMethods, t \in ChannelTypes, cb \in BOOLEAN :
          chl = ga_channel_new(m, cb, t)

NextChannel ==
    \/ \E accept_ok, encoding_ok \in BOOLEAN :
          ga_channel_listen_accept(accept_ok, encoding_ok)
    \/ \E id \in 1..MaxClients, client_cont \in BOOLEAN :
          ga_channel_client_event(id, client_cont)

SpecChannel == InitChannel /\ [][NextChannel]_vars

\* a connection that is waiting is accepted: the main loop dispatches the
\* accept watch, and qemu_accept and the set-up of the client succeed
SpecChannelFair ==
    /\ InitChannel
    /\ [][NextChannel]_vars
    /\ WF_vars(ga_channel_listen_accept(TRUE, TRUE))

\* buffers of up to MaxLen bytes written to one client
Bytes == {"a", "b"}

Buffers == UNION {[1..n -> Bytes] : n \in 0..MaxLen}

GIOStatus ==
    {"G_IO_STATUS_NORMAL", "G_IO_STATUS_AGAIN", "G_IO_STATUS_EOF",
     "G_IO_STATUS_ERROR"}

InitWrite ==
    /\ drives = <<>>
    /\ NoJobs
    /\ NoTxn
    /\ chl = ga_channel_new("GA_CHANNEL_VIRTIO_SERIAL", TRUE, "GA_CHANNEL_HOST")
    /\ wr = WriteIdle

NextWrite ==
    \/ \E buf \in Buffers : ga_channel_write_all(buf)
    \/ \E status \in GIOStatus, written \in 0..MaxLen, err \in BOOLEAN :
          write_chars(status, written, err)
    \/ \E status \in GIOStatus, err \in BOOLEAN : write_flush(status, err)
    \/ write_return

SpecWrite == InitWrite /\ [][NextWrite]_vars

\* the registry: admissions and deletions from the empty registry
InitReg ==
    /\ drives = <<>>
    /\ NoJobs
    /\ NoTxn /\ NoAgent

NextReg ==
    \/ \E r \in RegRequests : Admit(r[1], r[2])
    \/ \E id \in {drives[i].id : i \in 1..Len(drives)} \cup {"nodev"} : do_drive_del(id)

SpecReg == InitReg /\ [][NextReg]_vars

\* two drives admitted with an image each: ide0-hd0 and ide0-hd1
TwoDrives ==
    LET env == [open_ret |-> 0, inmigrate |-> FALSE]
        one == blockdev_init(<<>>, 1, [DefaultOpts EXCEPT !.file = "a.img"],
                             IF_IDE, env).drives
    IN  blockdev_init(one, 2, [DefaultOpts EXCEPT !.file = "b.img"], IF_IDE, env).drives

\* bdrv_attach_dev: a guest device may be attached to each backend
InitTwo ==
    /\ \E a, b \in BOOLEAN :
          drives = [TwoDrives EXCEPT ![1].bdrv.dev = a, ![2].bdrv.dev = b]
    /\ NoJobs

InitOne ==
    /\ \E a \in BOOLEAN :
          drives = [SubSeq(TwoDrives, 1, 1) EXCEPT ![1].bdrv.dev = a]
    /\ NoJobs

\* jobs, reference counts, deletion and hot-unplug
InitJob == InitOne /\ NoTxn /\ NoAgent

JobDevices == {"ide0-hd0", "nodev"}

\* drive-mirror requests: format, sync, mode, granularity accepted
MirrorRequests ==
    {<<"", "full", "absolute", TRUE>>, <<"", "top", "absolute", TRUE>>,
     <<"", "none", "absolute", TRUE>>, <<"", "none", "existing", TRUE>>,
     <<"qcow2", "full", "existing", TRUE>>, <<"bogus", "full", "absolute", TRUE>>,
     <<"", "full", "absolute", FALSE>>}

\* each request with collaborators that succeed, one request with each failure
MirrorCalls ==
    {<<r, EnvOk>> : r \in MirrorRequests}
        \cup {<<<<"", "full", "absolute", TRUE>>, env>> : env \in StartEnv}

\* drive-backup requests: format, mode
BackupCalls ==
    {<<r, EnvOk>> : r \in {"", "bogus"} \X {"absolute", "existing"}}
        \cup {<<<<"", "absolute">>, env>> : env \in StartEnv}

NextJob ==
    \/ \E d \in JobDevices, base \in {"", "a.img"},
          env \in {EnvOk, [EnvOk EXCEPT !.start_ok = FALSE]} :
          qmp_block_stream(d, base, env)
    \/ \E top \in {"", "b.img"} : qmp_block_commit("ide0-hd0", top, "", EnvOk)
    \/ \E c \in BackupCalls :
          qmp_drive_backup("ide0-hd0", c[1][1], c[1][2], c[2])
    \/ \E c \in MirrorCalls :
          qmp_drive_mirror("ide0-hd0", c[1][1], c[1][2], c[1][3], c[1][4], c[2])
    \/ \E d \in JobDevices, force \in BOOLEAN : qmp_block_job_cancel(d, force)
    \/ \E d \in JobDevices : qmp_block_job_pause(d)
    \/ \E d \in JobDevices : qmp_block_job_resume(d)
    \/ \E d \in JobDevices : qmp_block_job_set_speed(d, 1)
    \/ \E d \in JobDevices : qmp_block_job_complete(d)
    \/ \E p \in 1..2 : JobComplete(p)
    \/ \E i \in 1..Len(bhs) : drive_put_ref_bh(i)
    \/ \E d \in JobDevices : do_drive_del(d)
    \/ \E p \in 1..2 : blockdev_mark_auto_del(p)
    \/ \E p \in 1..2 : blockdev_auto_del(p)

SpecJob == InitJob /\ [][NextJob]_vars

\* transactions, with the jobs they start and a job started beside them
InitTxn == drives = TwoDrives /\ NoJobs /\ NoTxn /\ NoAgent

NextTxn ==
    \/ \E list \in TransactionActionLists : TxnBegin(list)
    \/ \E env \in PrepareEnv : TxnPrepare(env)
    \/ TxnCommit
    \/ \E reuse \in BOOLEAN : TxnAbort(reuse)
    \/ TxnReturn
    \/ \E p \in 1..2 : TxnJobComplete(p)
    \/ \E p \in 1..2 : JobComplete(p)
    \/ \E i \in 1..Len(bhs) : drive_put_ref_bh(i)

SpecTxn == InitTxn /\ [][NextTxn]_vars

\* one admission, from each of a few registries, with each option family
AdmitRegistries ==
    {<<>>, SubSeq(TwoDrives, 1, 1), TwoDrives}
        \cup {blockdev_init(<<>>, 1, o, IF_IDE,
                            [open_ret |-> 0, inmigrate |-> FALSE]).drives :
                 o \in AddressOpts}

Limits == {-1, 0, 1}

IoLimitOpts ==
    {[DefaultOpts EXCEPT !.io_limits = l] :
        l \in [bps : Limits, bps_rd : Limits, bps_wr : Limits,
               iops : Limits, iops_rd : Limits, iops_wr : Limits]}

GeometryOpts ==
    {[DefaultOpts EXCEPT !.cyls = c, !.heads = h, !.secs = n] :
        c \in {-1, 0, 1, 2}, h \in {-1, 0, 1, 10}, n \in {-1, 0, 1, 4}}

\* numbers below zero given as index or unit
NegativeOpts ==
    {Given([DefaultOpts EXCEPT !.if_ = "scsi", !.index = -2]),
     Given([DefaultOpts EXCEPT !.if_ = "ide", !.unit = -2]),
     Given([DefaultOpts EXCEPT !.if_ = "none", !.unit = -2])}

\* read-only drives of several kinds and media, with and without an image
ReadOnlyOpts ==
    {[DefaultOpts EXCEPT !.if_ = k, !.read_only = TRUE, !.file = f, !.media = m] :
        k \in {"ide", "scsi", "sd", "pflash"}, f \in {"", "a.img"},
        m \in {"", "cdrom"}}

AdmitRequests ==
    ((AddressOpts \cup NegativeOpts \cup ReadOnlyOpts \cup VariantOpts
        \cup {DefaultOpts, FileOpts}) \X InitEnv)
        \cup ((IoLimitOpts \cup GeometryOpts) \X {[open_ret |-> 0, inmigrate |-> FALSE]})

InitAdmit ==
    /\ drives \in AdmitRegistries
    /\ NoJobs
    /\ NoTxn /\ NoAgent

NextAdmit == \E r \in AdmitRequests : blockdev_init_call(r[1], r[2])

SpecAdmit == InitAdmit /\ [][NextAdmit]_vars

\* media and size of one drive, with and without a job on it
MediumRequests ==
    {<<"b.img", "", env>> : env \in MediumEnv}
        \cup {<<"b.img", "qcow2", MediumOk>>, <<"b.img", "bogus", MediumOk>>}

NextMedium ==
    \/ \E d \in JobDevices, force \in BOOLEAN, env \in MediumEnv : qmp_eject(d, force, env)
    \/ \E d \in JobDevices, r \in MediumRequests :
          qmp_change_blockdev(d, r[1], r[2], r[3])
    \/ \E d \in JobDevices, size \in {-1, 1}, env \in MediumEnv :
          qmp_block_resize(d, size, env)
    \/ \E d \in JobDevices : qmp_block_stream(d, "", EnvOk)
    \/ \E d \in JobDevices : do_drive_del(d)
    \/ \E p \in 1..2 : JobComplete(p)
    \/ \E i \in 1..Len(bhs) : drive_put_ref_bh(i)

SpecMedium == InitJob /\ [][NextMedium]_vars

\* the commands that quiesce all I/O: transaction, resize, delete, commit
DrainLists ==
    {list \in TransactionActionLists :
        \A i \in 1..Len(list) : list[i].device = "ide0-hd0"}

NextDrain ==
    \/ \E list \in DrainLists : TxnBegin(list)
    \/ \E env \in {PrepareOk, [PrepareOk EXCEPT !.open_ok = FALSE]} : TxnPrepare(env)
    \/ TxnCommit
    \/ \E reuse \in BOOLEAN : TxnAbort(reuse)
    \/ TxnReturn
    \/ \E p \in 1..2 : TxnJobComplete(p)
    \/ \E p \in 1..2 : JobComplete(p)
    \/ \E i \in 1..Len(bhs) : drive_put_ref_bh(i)
    \/ \E d \in JobDevices, size \in {-1, 1},
           env \in {MediumOk, [MediumOk EXCEPT !.truncate_ok = FALSE]} :
          qmp_block_resize(d, size, env)
    \/ \E d \in JobDevices, env \in StartEnv : qmp_block_commit(d, "", "", env)
    \/ \E d \in JobDevices : do_drive_del(d)

SpecDrain == InitJob /\ [][NextDrain]_vars

\* transactions of backups of one drive that fail at their last action
AbortLists ==
    LET backup == [kind |-> "drive-backup", device |-> "ide0-hd0"]
        abort == [kind |-> "abort", device |-> ""]
    IN  {<<backup, abort>>, <<backup, backup>>, <<backup, backup, abort>>}

NextAbort ==
    \/ \E list \in AbortLists : TxnBegin(list)
    \/ \E env \in {PrepareOk, [PrepareOk EXCEPT !.start_ok = FALSE]} : TxnPrepare(env)
    \/ TxnCommit
    \/ \E reuse \in BOOLEAN : TxnAbort(reuse)
    \/ TxnReturn
    \/ TxnJobComplete(1)
    \/ JobComplete(1)
    \/ \E i \in 1..Len(bhs) : drive_put_ref_bh(i)

SpecAbort == InitJob /\ [][NextAbort]_vars

\* transactions of snapshots of one drive, two of them in one transaction
SnapLists ==
    LET snap == [kind |-> "blockdev-snapshot-sync", device |-> "ide0-hd0"]
        abort == [kind |-> "abort", device |-> ""]
    IN  {<<snap>>, <<snap, abort>>, <<snap, snap>>, <<snap, snap, abort>>}

NextSnap ==
    \/ \E list \in SnapLists : TxnBeginWithin(list, MaxChain + 1)
    \/ \E env \in PrepareEnv : TxnPrepare(env)
    \/ TxnCommit
    \/ TxnAbort(FALSE)
    \/ TxnReturn

SpecSnap == InitJob /\ [][NextSnap]_vars

\* hot-unplug of devices whose drives may have a job. qdev releases an
\* unplugged device, the job layer ends a job that is not paused, and the main
\* loop runs every scheduled bottom half.
UnplugDevices == {"ide0-hd0", "ide0-hd1"}

NextUnplug ==
    \/ \E d \in UnplugDevices : qmp_block_stream(d, "", EnvOk)
    \/ \E d \in UnplugDevices : qmp_block_job_cancel(d, FALSE)
    \/ \E p \in 1..2 : blockdev_mark_auto_del(p)
    \/ \E p \in 1..2 : blockdev_auto_del(p)
    \/ \E p \in 1..2 : JobComplete(p)
    \/ \E i \in 1..Len(bhs) : drive_put_ref_bh(i)

Marked(p) == PosOf(drives, p) /= 0 /\ Deref(drives, p).auto_del

InitUnplug == InitTwo /\ NoTxn /\ NoAgent

SpecUnplug ==
    /\ InitUnplug
    /\ [][NextUnplug]_vars
    /\ \A p \in 1..2 : WF_vars(Marked(p) /\ blockdev_auto_del(p))
    /\ \A p \in 1..2 : WF_vars(JobComplete(p))
    /\ WF_vars(\E i \in 1..Len(bhs) : drive_put_ref_bh(i))

\* set-io-throttle on drives admitted with and without limits and medium
ThrottleLimits == [DOMAIN BLOCK_IO_LIMIT_ZERO -> Limits]

InitThrottle ==
    /\ \E o \in {[DefaultOpts EXCEPT !.file = "a.img"],
                  [DefaultOpts EXCEPT !.file = "a.img", !.io_limits.bps_rd = 1],
                  [DefaultOpts EXCEPT !.io_limits.bps = 1]} :
          drives = blockdev_init(<<>>, 1, o, IF_IDE,
                                 [open_ret |-> 0, inmigrate |-> FALSE]).drives
    /\ NoJobs
    /\ NoTxn /\ NoAgent

NextThrottle ==
    \/ \E d \in JobDevices, l \in ThrottleLimits : qmp_block_set_io_throttle(d, l)
    \/ block_timer_cb(1)

SpecThrottle == InitThrottle /\ [][NextThrottle]_vars

\* the three ways this layer cancels a job: the job command, hot-unplug, and
\* the abort of a transaction that started a backup
CancelLists ==
    {list \in TransactionActionLists :
        \A i \in 1..Len(list) :
            list[i] \in {[kind |-> "drive-backup", device |-> "ide0-hd0"],
                         [kind |-> "abort", device |-> ""]}}

NextCancel ==
    \/ \E list \in CancelLists : TxnBegin(list)
    \/ \E env \in {PrepareOk, [PrepareOk EXCEPT !.start_ok = FALSE]} : TxnPrepare(env)
    \/ TxnCommit
    \/ \E reuse \in BOOLEAN : TxnAbort(reuse)
    \/ TxnReturn
    \/ \E p \in 1..2 : TxnJobComplete(p)
    \/ \E p \in 1..2 : JobComplete(p)
    \/ \E i \in 1..Len(bhs) : drive_put_ref_bh(i)
    \/ \E force \in BOOLEAN : qmp_block_job_cancel("ide0-hd0", force)
    \/ qmp_block_job_pause("ide0-hd0")
    \/ \E p \in 1..2 : blockdev_mark_auto_del(p)

SpecCancel == InitJob /\ [][NextCancel]_vars

\* the whole layer
Init == InitTwo /\ NoTxn /\ NoAgent

Next ==
    \/ NextReg
    \/ \E o \in VariantOpts, env \in InitEnv : Admit(o, env)
    \/ NextJob
    \/ NextTxn

Spec == Init /\ [][Next]_vars


-----------------------------------------------------------------------------
(* Properties of the transaction engine, checked under SpecTxn *)

\* the entries op was called on, in the order of the calls
CallKs(op) ==
    LET c == SelectSeq(calls, LAMBDA x : x.op = op)
    IN  [i \in 1..Len(c) |-> c[i].k]

CallCount(op, k) == Cardinality({i \in 1..Len(calls) : calls[i] = Call(op, k)})

Upto(n) == [i \in 1..n |-> i]

\* the entries among the first n whose variant defines abort, commit, clean
AbortEntries(n) == SelectSeq(Upto(n), LAMBDA i : actions(dev_list[i].kind).abort)

CommitEntries(n) == SelectSeq(Upto(n), LAMBDA i : actions(dev_list[i].kind).commit)

CleanEntries(n) == SelectSeq(Upto(n), LAMBDA i : actions(dev_list[i].kind).clean)

\* qmp_transaction is about to return an error / success
TxnFailed == pc = "done" /\ local_err /= ""

TxnSucceeded == pc = "done" /\ local_err = ""

\* the number of prepares made: the failing action when the transaction failed
Prepared == Len(CallKs("prepare"))

\* C1: when the prepare of the k-th action fails, abort has been called exactly
\* once on each of the entries 1..k whose variant defines abort, the failing
\* entry included, in worklist order, and commit has been called on none.
C1_AbortOnFailure ==
    TxnFailed =>
        /\ CallKs("prepare") = Upto(Prepared)
        /\ CallKs("abort") = AbortEntries(Prepared)
        /\ CallKs("commit") = <<>>

\* a transaction failed at its second action, and both the entry prepared
\* before and the failing entry were aborted
C1_Witness ==
    /\ TxnFailed
    /\ Prepared = 2
    /\ dev_list[2].kind = "blockdev-snapshot-sync"
    /\ CallKs("abort") = <<1, 2>>

\* the drives the actions before the failing one name
Targeted ==
    {bdrv_find(pre.drives, dev_list[k].device) : k \in 1..(Prepared - 1)} \ {NULL}

\* who is registered, in registry order
RegistryOf(ds) ==
    [i \in 1..Len(ds) |->
        [ptr |-> ds[i].ptr, id |-> ds[i].id, type |-> ds[i].type,
         bus |-> ds[i].bus, unit |-> ds[i].unit]]

\* the registry, and image chain and job of the targeted drives, are as before
RolledBack ==
    /\ RegistryOf(drives) = RegistryOf(pre.drives)
    /\ \A i \in 1..Len(drives) :
          drives[i].bdrv.chain[1] = pre.drives[i].bdrv.chain[1]
    /\ \A p \in Targeted :
          /\ Deref(drives, p).bdrv.chain = Deref(pre.drives, p).bdrv.chain
          /\ Deref(drives, p).bdrv.job = Deref(pre.drives, p).bdrv.job

\* C2 as stated: after a transaction that fails at action N > 1, the registry
\* and, for every drive targeted by actions 1..N-1, the image chain, the
\* attached job and the reference count are the same as before it.
C2_Original ==
    (TxnFailed /\ Prepared > 1) =>
        /\ RolledBack
        /\ \A p \in Targeted :
              Deref(drives, p).refcount = Deref(pre.drives, p).refcount

\* C2: after a transaction that fails at action N > 1, the registry and, for
\* every drive targeted by actions 1..N-1, the image chain and the attached job
\* are the same as before it; the reference count is the count before it plus
\* the releases scheduled since and not yet run.
C2_RollbackUpToDeferredRelease ==
    (TxnFailed /\ Prepared > 1) =>
        /\ RolledBack
        /\ \A p \in Targeted :
              Deref(drives, p).refcount - Pending(bhs, p)
                  = Deref(pre.drives, p).refcount - Pending(pre.bhs, p)

\* a failed transaction whose aborted drive-backup left a release to run
C2_Witness ==
    /\ TxnFailed
    /\ Prepared > 1
    /\ \E p \in Targeted :
          /\ Deref(drives, p).refcount = Deref(pre.drives, p).refcount + 1
          /\ Pending(bhs, p) = Pending(pre.bhs, p) + 1
          /\ ~HasJob(Deref(drives, p))

\* C3 as stated: when every prepare succeeds, commit is called exactly once
\* for every action, in order, and abort for none.
C3_Original ==
    TxnSucceeded =>
        /\ CallKs("commit") = Upto(Len(dev_list))
        /\ CallKs("abort") = <<>>

\* C3: when every prepare succeeds, commit is called exactly once, in order,
\* for every action whose variant defines commit, and abort for none.
C3_CommitWhereDefined ==
    TxnSucceeded =>
        /\ CallKs("prepare") = Upto(Len(dev_list))
        /\ CallKs("commit") = CommitEntries(Len(dev_list))
        /\ CallKs("abort") = <<>>

\* a transaction of a snapshot and a backup succeeded
C3_Witness ==
    /\ TxnSucceeded
    /\ \E k \in 1..Len(dev_list) : dev_list[k].kind = "drive-backup"
    /\ \E k \in 1..Len(dev_list) : dev_list[k].kind = "blockdev-snapshot-sync"
    /\ Len(CallKs("commit")) = 1

\* C4: every worklist entry has at most one of commit and abort called on it;
\* when the transaction returns, clean has been called once on every entry
\* whose variant defines it and every state record has been released once, in
\* worklist order, after all commit and abort calls, clean before the release.
C4_OneOutcomeThenClean ==
    /\ \A k \in 1..Len(dev_list) :
          CallCount("commit", k) + CallCount("abort", k) <= 1
    /\ pc = "done" =>
          /\ CallKs("g_free") = Upto(Len(snap_bdrv_states))
          /\ CallKs("clean") = CleanEntries(Len(snap_bdrv_states))
          /\ \A i, j \in 1..Len(calls) :
                /\ (calls[i].op \in {"commit", "abort"}
                    /\ calls[j].op \in {"clean", "g_free"}) => i < j
                /\ (calls[i].op = "clean" /\ calls[j].op = "g_free"
                    /\ calls[i].k = calls[j].k) => i < j

\* a transaction of two entries committed the first and released both state
\* records
C4_Witness ==
    /\ pc = "done"
    /\ CallCount("commit", 1) = 1
    /\ CallCount("abort", 1) = 0
    /\ CallKs("g_free") = <<1, 2>>

\* C5: prepare is called on the actions in submission order, each entry
\* allocated and added to the worklist just before its prepare; after a failed
\* prepare no later action is allocated, added or prepared.
C5_PrepareInOrder ==
    /\ SelectSeq(calls, LAMBDA x : x.op \in {"alloc", "prepare"})
           = [i \in 1..(2 * (dev_entry - 1)) |->
                 Call(IF i % 2 = 1 THEN "alloc" ELSE "prepare", (i + 1) \div 2)]
    /\ Len(snap_bdrv_states) = dev_entry - 1
    /\ \A i \in 1..Len(snap_bdrv_states) :
          /\ snap_bdrv_states[i].action = i
          /\ snap_bdrv_states[i].kind = dev_list[i].kind
    /\ pc = "prepare" => local_err = ""
    /\ local_err /= "" => pc \in {"abort", "done"}

\* a transaction of two actions failed at the first: the second was never
\* allocated or prepared
C5_Witness ==
    /\ TxnFailed
    /\ Len(dev_list) = 2
    /\ CallKs("alloc") = <<1>>
    /\ CallKs("prepare") = <<1>>

HasAbortAction == \E k \in 1..Len(dev_list) : dev_list[k].kind = "abort"

\* C6: a transaction that contains an abort action returns an error, and the
\* commit of an abort action (abort_commit) is never executed.
C6_AbortActionFails ==
    /\ (pc = "done" /\ HasAbortAction) => local_err /= ""
    /\ HasAbortAction => pc /= "commit" /\ CallKs("commit") = <<>>
    /\ \A i \in 1..Len(calls) :
          calls[i].op = "commit" => dev_list[calls[i].k].kind /= "abort"
    /\ ~crashed

\* a transaction failed at its abort action, after an action that prepared
C6_Witness ==
    /\ TxnFailed
    /\ Prepared = 2
    /\ dev_list[2].kind = "abort"
    /\ local_err = "Transaction aborted using Abort action"

-----------------------------------------------------------------------------
(* Properties of the drive registry, checked under SpecReg *)

\* C7: in every reachable state of the registry, after admissions by bus and
\* unit, by index or with an auto-assigned unit, failed admissions and
\* deletions, no two registered drives share (bus kind, bus, unit).
C7_UniqueAddress ==
    \A i, j \in 1..Len(drives) :
        i /= j => <<drives[i].type, drives[i].bus, drives[i].unit>>
                      /= <<drives[j].type, drives[j].bus, drives[j].unit>>

\* after a deletion, two drives of one kind sit on one bus, the second at the
\* unit the scan assigned past the occupied one
C7_Witness ==
    /\ Len(drives) = 2
    /\ destroyed /= {}
    /\ drives[1].type = drives[2].type
    /\ drives[1].bus = drives[2].bus
    /\ drives[1].unit = 0
    /\ drives[2].unit = 1
    /\ drives[2].opts.index = -1

\* the flat indices the mapping is checked for
MaxIndex == 8

\* units per bus, as the specification gives them: ide 2, scsi 7, others none
MaxUnits(type) ==
    IF type = IF_IDE THEN 2 ELSE IF type = IF_SCSI THEN 7 ELSE 0

\* (bus, unit) is what index / max and index % max give, the quotient
\* truncating toward zero
Resolves(type, index, bus, unit) ==
    IF MaxUnits(type) = 0
    THEN bus = 0 /\ unit = index
    ELSE /\ bus * MaxUnits(type) + unit = index
         /\ index >= 0 => (unit >= 0 /\ unit < MaxUnits(type))
         /\ index < 0 => (unit <= 0 /\ unit > -MaxUnits(type))

\* C8: for every bus kind and flat index, admission and drive_get_by_index
\* resolve bus = index / max_units(kind) and unit = index % max_units(kind),
\* and bus = 0, unit = index for kinds with max_units 0; scsi indices 0, 1 and
\* 7 resolve to (0,0), (0,1) and (1,0).
C8_IndexMapping ==
    /\ \A type \in IfTypes, x \in (-MaxIndex)..MaxIndex :
          /\ Resolves(type, x, drive_index_to_bus_id(type, x),
                      drive_index_to_unit_id(type, x))
          /\ LET hits == {i \in 1..Len(drives) :
                            /\ drives[i].type = type
                            /\ Resolves(type, x, drives[i].bus, drives[i].unit)}
             IN  drive_get_by_index(drives, type, x)
                     = IF hits = {} THEN NULL ELSE drives[Min(hits)].ptr
    /\ <<drive_index_to_bus_id(IF_SCSI, 0), drive_index_to_unit_id(IF_SCSI, 0)>>
           = <<0, 0>>
    /\ <<drive_index_to_bus_id(IF_SCSI, 1), drive_index_to_unit_id(IF_SCSI, 1)>>
           = <<0, 1>>
    /\ <<drive_index_to_bus_id(IF_SCSI, 7), drive_index_to_unit_id(IF_SCSI, 7)>>
           = <<1, 0>>
    /\ \A i \in 1..Len(drives) :
          (drives[i].opts.index >= 0
           \/ (drives[i].opts.index /= -1 /\ MaxUnits(drives[i].type) = 0))
              => Resolves(drives[i].type, drives[i].opts.index,
                          drives[i].bus, drives[i].unit)

\* scsi drives admitted with index 1 and index 7 are registered at (0,1) and
\* (1,0), and drive_get_by_index finds them there
C8_Witness ==
    /\ Len(drives) = 2
    /\ \E i, j \in 1..2 :
          /\ drives[i].type = IF_SCSI /\ drives[i].opts.index = 1
          /\ <<drives[i].bus, drives[i].unit>> = <<0, 1>>
          /\ drives[j].type = IF_SCSI /\ drives[j].opts.index = 7
          /\ <<drives[j].bus, drives[j].unit>> = <<1, 0>>
          /\ drive_get_by_index(drives, IF_SCSI, 7) = drives[j].ptr

-----------------------------------------------------------------------------
(* Properties of reference counting, checked under SpecJob *)

\* C9: a drive is destroyed only when its reference count reaches zero, no
\* reference but the one being dropped remaining, and never while a reference
\* taken for a block job is outstanding; a registered drive has a count above
\* zero.
C9_DestroyedOnlyAtZero ==
    /\ \A r \in destroyed : r.refcount <= 1 /\ r.pending = 0 /\ ~r.job
    /\ \A i \in 1..Len(drives) : drives[i].refcount >= 1
    /\ ~uaf

\* C10: a successful job start raises the drive's reference count by exactly
\* one; the completion of the job schedules exactly one deferred release and
\* leaves the count; with the job unchanged the count never rises (a failed
\* start leaves it), and falls by one only when a scheduled release runs or
\* hot-unplug drops the creator's reference.
C10_Step ==
    \A i \in 1..Len(drives) :
        LET p == drives[i].ptr
            d == drives[i]
        IN  PosOf(drives', p) /= 0 =>
            LET e == Deref(drives', p)
            IN  /\ (~HasJob(d) /\ HasJob(e)) =>
                      /\ e.refcount = d.refcount + 1
                      /\ Pending(bhs', p) = Pending(bhs, p)
                /\ (HasJob(d) /\ ~HasJob(e)) =>
                      /\ e.refcount = d.refcount
                      /\ Pending(bhs', p) = Pending(bhs, p) + 1
                /\ (HasJob(d) = HasJob(e)) =>
                      /\ e.bdrv.job.id = d.bdrv.job.id
                      /\ \/ /\ e.refcount = d.refcount
                            /\ Pending(bhs', p) = Pending(bhs, p)
                         \/ /\ e.refcount = d.refcount - 1
                            /\ Pending(bhs', p) = Pending(bhs, p) - 1
                         \/ /\ e.refcount = d.refcount - 1
                            /\ Pending(bhs', p) = Pending(bhs, p)
                            /\ d.auto_del /\ d.bdrv.dev /\ ~e.bdrv.dev

C10_JobReference == [][C10_Step]_vars

\* a job was started on the drive, has completed and its deferred release has
\* run: the count is back at the creator's one reference
C10_Witness ==
    /\ Len(drives) = 1
    /\ nextJob = 2
    /\ ~HasJob(drives[1])
    /\ bhs = <<>>
    /\ drives[1].refcount = 1
    /\ ~drives[1].auto_del
    /\ destroyed = {}
    /\ ~uaf

-----------------------------------------------------------------------------
(* Job completion and control *)

JobIds == 0..(MaxJobs + 1)

\* notifications emitted so far for the job j
Notified(ev, j) ==
    CopiesIn([job |-> j, event |-> "BLOCK_JOB_COMPLETED"], ev)
        + CopiesIn([job |-> j, event |-> "BLOCK_JOB_CANCELLED"], ev)

\* the backends a step detaches a job from
Detached ==
    {i \in 1..Len(drives) :
        /\ HasJob(drives[i])
        /\ PosOf(drives', drives[i].ptr) /= 0
        /\ ~HasJob(Deref(drives', drives[i].ptr))}

C11_OneNotification ==
    /\ \A j \in JobIds : Notified(events, j) <= 1
    /\ \A i \in 1..Len(drives) :
          HasJob(drives[i]) => Notified(events, drives[i].bdrv.job.id) = 0

C11_Step ==
    /\ \A i \in Detached :
          LET d == drives[i]
              e == Deref(drives', d.ptr)
          IN  /\ events' = events (+) SetToBag({
                     [job |-> d.bdrv.job.id,
                      event |-> IF d.bdrv.job.cancelled
                                THEN "BLOCK_JOB_CANCELLED"
                                ELSE "BLOCK_JOB_COMPLETED"]})
              /\ e.refcount = d.refcount
              /\ Pending(bhs', d.ptr) = Pending(bhs, d.ptr) + 1
              /\ destroyed' = destroyed
    /\ Detached = {} => events' = events

\* C11: a job is notified at most once, and only by the step that ends it:
\* that step emits the cancelled notification if the job was cancelled and
\* the completed one otherwise, leaves the drive's reference count as it is
\* and schedules one deferred release.
C11_CallbackOnce == []C11_OneNotification /\ [][C11_Step]_vars

C11_Witness ==
    /\ BagIn([job |-> 1, event |-> "BLOCK_JOB_CANCELLED"], events)
    /\ BagIn([job |-> 2, event |-> "BLOCK_JOB_COMPLETED"], events)
    /\ \E i \in 1..Len(drives) : Pending(bhs, drives[i].ptr) > 0

\* the drives whose job is paused and not cancelled
PausedJobs(ds) ==
    {i \in 1..Len(ds) :
        HasJob(ds[i]) /\ ds[i].bdrv.job.paused /\ ~ds[i].bdrv.job.cancelled}

C12_PausedCancel ==
    \A i \in PausedJobs(drives) :
        LET name == drives[i].bdrv.device_name
            plain == job_cancel(drives, name, FALSE)
            forced == job_cancel(drives, name, TRUE)
        IN  bdrv_find(drives, name) = drives[i].ptr =>
            /\ plain = [drives |-> drives, err |-> "BlockJobPaused"]
            /\ forced.err = ""
            /\ forced.drives[i].bdrv.job =
                   [drives[i].bdrv.job EXCEPT !.cancelled = TRUE, !.paused = FALSE]
            /\ \A k \in 1..Len(drives) : k /= i => forced.drives[k] = drives[k]

\* a step that marks an attached job cancelled and leaves it attached
CancelRequested ==
    {i \in 1..Len(drives) :
        /\ HasJob(drives[i]) /\ ~drives[i].bdrv.job.cancelled
        /\ PosOf(drives', drives[i].ptr) /= 0
        /\ Deref(drives', drives[i].ptr).bdrv.job.id = drives[i].bdrv.job.id
        /\ Deref(drives', drives[i].ptr).bdrv.job.cancelled}

C12_Step ==
    /\ CancelRequested /= {} => events' = events
    /\ (errp' = "BlockJobPaused" /\ errp /= errp') =>
          /\ drives' = drives /\ events' = events
          /\ \E i \in 1..Len(drives) :
                HasJob(drives[i]) /\ drives[i].bdrv.job.paused

\* C12: block-job-cancel without force on a paused job reports "job is
\* paused" and changes nothing; with force it reports no error and only marks
\* the job cancelled, the job stays attached and no notification is emitted
\* by that step (the notification comes from the completion callback).
C12_CancelPaused == []C12_PausedCancel /\ [][C12_Step]_vars

C12_Witness ==
    /\ errp = "BlockJobPaused"
    /\ PausedJobs(drives) /= {}
    /\ events = EmptyBag

\* the jobs attached and not cancelled that a step reports as cancelled
CancelledAtOnce ==
    {i \in 1..Len(drives) :
        /\ HasJob(drives[i]) /\ ~drives[i].bdrv.job.cancelled
        /\ BagIn([job |-> drives[i].bdrv.job.id, event |-> "BLOCK_JOB_CANCELLED"],
                 events')}

\* the statement as written: no operation both cancels a job and ends it
C13_Original == [][CancelledAtOnce = {}]_vars

\* the backup actions whose abort cancels the job they started
AbortCancels ==
    {k \in 1..Len(snap_bdrv_states) :
        /\ snap_bdrv_states[k].kind = "drive-backup"
        /\ drive_backup_abort_cancels(drives, snap_bdrv_states[k], FALSE)}

C13_Step ==
    /\ pc /= "abort" =>
          /\ CancelledAtOnce = {}
          /\ \A i \in 1..Len(drives) :
                (HasJob(drives[i]) /\ PosOf(drives', drives[i].ptr) /= 0
                     /\ events' = events)
                => Deref(drives', drives[i].ptr).bdrv.job.id = drives[i].bdrv.job.id
    /\ (pc = "abort" /\ pc' /= "abort") =>
          /\ \A i \in CancelledAtOnce :
                \E k \in AbortCancels : snap_bdrv_states[k].bs = drives[i].ptr
          /\ \A k \in AbortCancels :
                LET st == snap_bdrv_states[k]
                IN  /\ ~HasJob(Deref(drives', st.bs))
                    /\ BagIn([job |-> st.job, event |-> "BLOCK_JOB_CANCELLED"],
                             events')
                    /\ Pending(bhs', st.bs) = Pending(bhs, st.bs) + 1

\* C13: block-job-cancel and blockdev_mark_auto_del only request the
\* cancellation: the job stays attached and nothing is notified in that step.
\* The abort of a drive-backup action is the exception: it cancels the job it
\* started and waits for it, so that when the abort returns the job is
\* detached, its cancelled notification is out and its release is scheduled.
C13_CancelRequests == [][C13_Step]_vars

C13_Witness ==
    /\ pc = "done"
    /\ CallCount("abort", 1) = 1
    /\ BagIn([job |-> 1, event |-> "BLOCK_JOB_CANCELLED"], events)
    /\ BagIn([job |-> 2, event |-> "BLOCK_JOB_CANCELLED"], events)
    /\ drives[1].auto_del

-----------------------------------------------------------------------------
(* Admission *)

\* the address the admission under study resolves to, in the registry before it
CallType == blockdev_init_type(init_call.opts, IF_IDE)
CallAddress == blockdev_init_address(init_call.before, init_call.opts, CallType)

\* C14: an admission either returns a drive that is registered, the registry
\* growing by exactly that drive, or returns nothing and leaves the registry
\* as it was; when it failed after it had reserved a free address, that
\* address is free again.
C14_AllOrNothing ==
    init_call.called =>
        IF init_call.ret = NULL
        THEN /\ drives = init_call.before
             /\ init_call.allocated =>
                   /\ drive_get(init_call.before, CallType, CallAddress.bus,
                                CallAddress.unit) = NULL
                   /\ drive_get(drives, CallType, CallAddress.bus,
                                CallAddress.unit) = NULL
        ELSE /\ PosOf(drives, init_call.ret) /= 0
             /\ PosOf(init_call.before, init_call.ret) = 0
             /\ drives = Append(init_call.before, Deref(drives, init_call.ret))
             /\ drive_get(drives, CallType, CallAddress.bus, CallAddress.unit)
                    = init_call.ret

\* bdrv_open failed after the entry was inserted
C14_Witness ==
    /\ init_call.called /\ init_call.ret = NULL /\ init_call.allocated
    /\ init_call.env.open_ret < 0
    /\ Len(init_call.before) = 2
    /\ drives = init_call.before

\* the read-only rejection, after the entry was inserted
C14_WitnessReadOnly ==
    /\ init_call.called /\ init_call.ret = NULL /\ init_call.allocated
    /\ init_call.env.open_ret = 0
    /\ init_call.opts.read_only

\* the limits the claim says are rejected
IoLimitsRejected(l) ==
    \/ l.bps /= 0 /\ (l.bps_rd /= 0 \/ l.bps_wr /= 0)
    \/ l.iops /= 0 /\ (l.iops_rd /= 0 \/ l.iops_wr /= 0)
    \/ \E f \in DOMAIN l : l[f] < 0

\* C15: the limits are rejected exactly when a total is given together with
\* a read or write limit of the same kind, or when one of the six values is
\* negative; an admission with rejected limits fails, and one that differs
\* from the defaults only by accepted limits succeeds with those limits.
C15_IoLimits ==
    init_call.called =>
        LET l == init_call.opts.io_limits
        IN  /\ do_check_io_limits(l) = ~IoLimitsRejected(l)
            /\ IoLimitsRejected(l) => init_call.ret = NULL /\ drives = init_call.before
            /\ (~IoLimitsRejected(l) /\ init_call.opts \in IoLimitOpts) =>
                  /\ init_call.ret /= NULL
                  /\ Deref(drives, init_call.ret).bdrv.io_limits = l

\* read and write limits without a total are accepted
C15_Witness ==
    /\ init_call.called /\ init_call.ret /= NULL
    /\ init_call.opts.io_limits.bps = 0
    /\ init_call.opts.io_limits.bps_rd = 1
    /\ init_call.opts.io_limits.bps_wr = 1
    /\ init_call.opts.io_limits.iops_rd = 1

GeometryGiven(o) == o.cyls /= 0 \/ o.heads /= 0 \/ o.secs /= 0

\* C16: an admission that gives a geometry succeeds only if cyls, heads and
\* secs are all at least 1, and then the drive carries them; one that gives
\* none and is otherwise the default succeeds with the geometry unset; one
\* whose geometry is refused registers nothing.
C16_Geometry ==
    init_call.called =>
        LET o == init_call.opts
        IN  /\ (GeometryGiven(o) /\ init_call.ret /= NULL) =>
                  /\ o.cyls >= 1 /\ o.heads >= 1 /\ o.secs >= 1
                  /\ Deref(drives, init_call.ret).chs = <<o.cyls, o.heads, o.secs>>
            /\ (GeometryGiven(o) /\ (o.cyls < 1 \/ o.heads < 1 \/ o.secs < 1)) =>
                  init_call.ret = NULL /\ drives = init_call.before
            /\ (o \in GeometryOpts /\ o.cyls >= 1 /\ o.heads >= 1 /\ o.secs >= 1) =>
                  init_call.ret /= NULL
            /\ o = DefaultOpts =>
                  /\ init_call.ret /= NULL
                  /\ Deref(drives, init_call.ret).chs = <<0, 0, 0>>

\* cyls=0 with heads=10 is refused
C16_Witness ==
    /\ init_call.called /\ init_call.ret = NULL
    /\ init_call.opts.cyls = 0 /\ init_call.opts.heads = 10
    /\ drives = init_call.before /\ drives /= <<>>

-----------------------------------------------------------------------------
(* One job per backend *)

\* the results of every job start asked for the device of drive i
StartResults(i) ==
    LET name == drives[i].bdrv.device_name
    IN  {block_stream(drives, name, base, env, nextJob) :
             base \in {"", "a.img"}, env \in StartEnv}
        \cup {block_commit(drives, name, top, "", env, nextJob) :
                 top \in {"", "b.img"}, env \in StartEnv}
        \cup {drive_backup(drives, name, c[1][1], c[1][2], c[2], nextJob) :
                 c \in BackupCalls}
        \cup {[drives |-> r.drives, err |-> r.err, started |-> r.started] :
                 r \in {drive_mirror(drives, name, c[1][1], c[1][2], c[1][3],
                                     c[1][4], c[2], nextJob) : c \in MirrorCalls}}
        \cup {[drives |-> r.drives, err |-> r.err, started |-> r.started] :
                 r \in {drive_backup_prepare(drives, NewState(1, "drive-backup"),
                                             [kind |-> "drive-backup", device |-> name],
                                             env, nextJob) : env \in PrepareEnv}}

\* a backup or a mirror with valid arguments, whatever its collaborators answer
BusyResults(i) ==
    LET name == drives[i].bdrv.device_name
    IN  {drive_backup(drives, name, "", "absolute", env, nextJob).err :
             env \in StartEnv}
        \cup {drive_mirror(drives, name, "", "full", "absolute", TRUE, env,
                           nextJob).err : env \in StartEnv}

C17_Rejected ==
    \A i \in 1..Len(drives) :
        (HasJob(drives[i]) /\ bdrv_find(drives, drives[i].bdrv.device_name)
                                  = drives[i].ptr) =>
            /\ \A r \in StartResults(i) :
                  r.err /= "" /\ ~r.started /\ r.drives = drives
            /\ \A c \in MirrorCalls :
                  ~drive_mirror(drives, drives[i].bdrv.device_name, c[1][1],
                                c[1][2], c[1][3], c[1][4], c[2], nextJob).crash
            /\ bdrv_is_inserted(drives[i]) => BusyResults(i) = {"DeviceInUse"}

C17_Step ==
    \A i \in 1..Len(drives) :
        (HasJob(drives[i]) /\ PosOf(drives', drives[i].ptr) /= 0) =>
            LET e == Deref(drives', drives[i].ptr)
            IN  /\ e.bdrv.job.id \in {drives[i].bdrv.job.id, 0}
                /\ e.bdrv.job.id /= 0 => e.bdrv.job.type = drives[i].bdrv.job.type
                /\ (errp' /= "" /\ errp' /= errp) => e = drives[i]

\* C17: a backend has at most one job: while a job is attached, every job
\* start on that drive (stream, commit, mirror, backup, and the drive-backup
\* action of a transaction) is refused and changes nothing, and no step
\* replaces the attached job by another; a command that reports an error
\* leaves the drive, its job and its reference count as they were.
C17_OneJob == []C17_Rejected /\ [][C17_Step]_vars

C17_Witness ==
    /\ errp = "DeviceInUse"
    /\ \E i \in 1..Len(drives) :
          /\ HasJob(drives[i]) /\ drives[i].bdrv.job.type = "stream"
          /\ drives[i].refcount = 2
    /\ nextJob = 2

-----------------------------------------------------------------------------
(* Job commands without a job *)

\* what the five job commands answer for the device
JobCommandResults(device) ==
    {job_set_speed(drives, device, 1), job_set_speed(drives, device, 0),
     job_cancel(drives, device, FALSE), job_cancel(drives, device, TRUE),
     job_pause(drives, device), job_resume(drives, device),
     job_complete(drives, device)}

NoJobOn(device) ==
    \/ bdrv_find(drives, device) = NULL
    \/ ~HasJob(Deref(drives, bdrv_find(drives, device)))

C18_NotActive ==
    \A device \in JobDevices \cup {drives[i].bdrv.device_name : i \in 1..Len(drives)} :
        NoJobOn(device) =>
            JobCommandResults(device) = {[drives |-> drives, err |-> "BlockJobNotActive"]}

C18_Step ==
    (errp' = "BlockJobNotActive" /\ errp /= errp') =>
        /\ drives' = drives
        /\ events' = events
        /\ bhs' = bhs

\* C18: block-job-set-speed, -cancel, -pause, -resume and -complete on a
\* device that has no job, or that does not exist, each report that no job is
\* active and change nothing: no job's speed, paused or cancelled state moves
\* and nothing is notified.
C18_NoJobNoEffect == []C18_NotActive /\ [][C18_Step]_vars

C18_Witness ==
    /\ errp = "BlockJobNotActive"
    /\ nextJob = 2
    /\ \E i \in 1..Len(drives) : ~HasJob(drives[i]) /\ drives[i].refcount = 2
    /\ BagIn([job |-> 1, event |-> "BLOCK_JOB_COMPLETED"], events)

-----------------------------------------------------------------------------
(* Operations on a backend in use *)

InUse == {i \in 1..Len(drives) :
             /\ drives[i].bdrv.in_use
             /\ bdrv_find(drives, drives[i].bdrv.device_name) = drives[i].ptr}

\* [drives, err] of every destructive or exclusive operation asked for drive i
ExclusiveResults(i) ==
    LET name == drives[i].bdrv.device_name
        out(r) == [drives |-> r.drives, err |-> r.err]
    IN  {eject(drives, name, force, env) : force \in BOOLEAN, env \in MediumEnv}
        \cup {change_blockdev(drives, name, "b.img", f, env) :
                 f \in {"", "qcow2", "bogus"}, env \in MediumEnv}
        \cup {block_resize(drives, name, size, env) :
                 size \in {-1, 1}, env \in MediumEnv}
        \cup {[drives |-> drives,
               err |-> external_snapshot_prepare(
                           drives, NewState(1, "blockdev-snapshot-sync"),
                           [kind |-> "blockdev-snapshot-sync", device |-> name],
                           env).err] : env \in PrepareEnv}
        \cup {out(r) : r \in StartResults(i)}

\* the same operations with arguments that pass every earlier check
ValidResults(i) ==
    LET name == drives[i].bdrv.device_name
        d == drives[i]
    IN  {eject(drives, name, force, env).err : force \in BOOLEAN, env \in MediumEnv}
        \cup {change_blockdev(drives, name, "b.img", f, env).err :
                 f \in {"", "qcow2"}, env \in MediumEnv}
        \cup {block_stream(drives, name, "", env, nextJob).err : env \in StartEnv}
        \cup {block_commit(drives, name, "", "", env, nextJob).err : env \in StartEnv}
        \cup (IF bdrv_is_inserted(d)
              THEN BusyResults(i)
                   \cup {external_snapshot_prepare(
                             drives, NewState(1, "blockdev-snapshot-sync"),
                             [kind |-> "blockdev-snapshot-sync", device |-> name],
                             env).err : env \in PrepareEnv}
              ELSE {})
        \cup (IF bdrv_is_inserted(d) /\ ~d.bdrv.read_only
              THEN {block_resize(drives, name, 1, MediumOk).err}
              ELSE {})

\* the statement as written: each of them reports that the device is in use
C19_Original ==
    \A i \in InUse :
        \A r \in ExclusiveResults(i) : r = [drives |-> drives, err |-> "DeviceInUse"]

C19_Refused ==
    \A i \in InUse :
        /\ \A r \in ExclusiveResults(i) : r.err /= "" /\ r.drives = drives
        /\ ValidResults(i) = {"DeviceInUse"}

C19_Step ==
    /\ (errp' = "DeviceInUse" /\ errp /= errp') =>
          drives' = drives /\ destroyed' = destroyed
    /\ \A i \in 1..Len(drives) :
          drives[i].bdrv.in_use =>
              /\ PosOf(drives', drives[i].ptr) /= 0
              /\ Deref(drives', drives[i].ptr).bdrv.chain = drives[i].bdrv.chain
              /\ Deref(drives', drives[i].ptr).bdrv.length = drives[i].bdrv.length
              /\ Deref(drives', drives[i].ptr).bdrv.device_name
                     = drives[i].bdrv.device_name

\* C19: while a backend is in use, eject, change-medium, delete-drive,
\* external snapshot, drive-backup, drive-mirror, block-stream, block-commit
\* and resize are all refused and change nothing: the drive stays registered
\* with its medium, its size and its name. The error is device-in-use when
\* the request passes the checks made before the in-use check; a request
\* with an invalid format, base, granularity or size, or for a drive without
\* medium, is refused with that error instead.
C19_InUseRefused == []C19_Refused /\ [][C19_Step]_vars

C19_Witness ==
    /\ errp = "DeviceInUse"
    /\ \E i \in InUse :
          /\ drives[i].bdrv.chain = <<"b.img">>
          /\ drives[i].bdrv.length = 1
          /\ HasJob(drives[i])

-----------------------------------------------------------------------------
(* Change of medium *)

ChangeErrors == {"DeviceNotFound", "InvalidBlockFormat", "DeviceInUse",
                 "DeviceNotRemovable", "DeviceLocked", "OpenFileFailed",
                 "DeviceEncrypted"}

C20_Step ==
    (errp' \in ChangeErrors /\ errp' /= errp) =>
        \A i \in 1..Len(drives) :
            /\ PosOf(drives', drives[i].ptr) /= 0
            /\ Deref(drives', drives[i].ptr).bdrv.chain = drives[i].bdrv.chain

\* C20: a command that reports one of the errors of change-medium leaves the
\* medium of every drive as it was: the image that was inserted is still open.
C20_MediumKept == [][C20_Step]_vars

-----------------------------------------------------------------------------
(* Properties of I/O throttling, checked under SpecThrottle *)

\* what a successful set-io-throttle with limits l leaves of backend old
ThrottleReconciled(old, new, l) ==
    LET nontrivial == bdrv_io_limits_enabled(l)
    IN  /\ new.io_limits = l
        /\ new.io_limits_enabled = nontrivial
        /\ new = [old EXCEPT !.io_limits = l,
                             !.io_limits_enabled = new.io_limits_enabled,
                             !.block_timer = new.block_timer]
        /\ IF ~old.io_limits_enabled /\ nontrivial
           THEN new.block_timer = "idle"
           ELSE IF old.io_limits_enabled /\ ~nontrivial
           THEN new.block_timer = "NULL"
           ELSE /\ new.io_limits_enabled = old.io_limits_enabled
                /\ old.block_timer /= "NULL" => new.block_timer = "now"
                /\ old.block_timer = "NULL" => new.block_timer = "NULL"

C21_Reconciled ==
    \A d \in JobDevices, l \in ThrottleLimits :
        LET r == block_set_io_throttle(drives, d, l)
            bs == bdrv_find(drives, d)
        IN  IF r.err = ""
            THEN /\ bs /= NULL
                 /\ ThrottleReconciled(Deref(drives, bs).bdrv,
                                       Deref(r.drives, bs).bdrv, l)
            ELSE r.drives = drives

C21_Step ==
    \/ block_timer_cb(1)
    \/ \E d \in JobDevices, l \in ThrottleLimits :
          LET r == block_set_io_throttle(drives, d, l)
          IN  drives' = r.drives /\ errp' = r.err

\* C21: a successful set-io-throttle makes the requested limits the active
\* ones and leaves the limiter enabled exactly when they are non-trivial: it
\* enables a disabled limiter, disables an enabled one, and otherwise keeps
\* the enabled state and reschedules an existing timer to fire at once; a
\* failed one changes nothing
C21_IoThrottle == []C21_Reconciled /\ [][C21_Step]_vars

\* a running limiter was given new non-trivial limits and its timer is due
C21_Witness ==
    /\ errp = ""
    /\ Len(drives) = 1
    /\ drives[1].bdrv.io_limits_enabled
    /\ drives[1].bdrv.block_timer = "now"
    /\ drives[1].bdrv.io_limits.iops_wr = 1

-----------------------------------------------------------------------------
(* The drain barrier, checked under SpecDrain *)

\* the block-layer calls that touch a backend
BackendCalls == {"bdrv_truncate", "bdrv_flush", "bdrv_close", "commit_start"}

\* in the trace c every call that touches a backend follows a drain
DrainFirst(c) ==
    \A i \in 1..Len(c) :
        c[i] \in BackendCalls => \E j \in 1..(i - 1) : c[j] = "bdrv_drain_all"

ResizeResults ==
    {block_resize(drives, d, size, env) :
        d \in JobDevices, size \in {-1, 1}, env \in MediumEnv}

CommitResults ==
    {block_commit(drives, d, "", "", env, nextJob) : d \in JobDevices, env \in StartEnv}

C22_Drained ==
    /\ \A r \in ResizeResults :
          /\ DrainFirst(r.calls)
          /\ r.drives /= drives => "bdrv_truncate" \in Range(r.calls)
    /\ \A r \in CommitResults :
          /\ DrainFirst(r.calls)
          /\ r.started => "commit_start" \in Range(r.calls)
    /\ \A d \in JobDevices : DrainFirst(drive_del_calls(drives, d))
    /\ pc /= "idle" =>
          /\ calls /= <<>>
          /\ calls[1] = Call("bdrv_drain_all", 0)

C22_Step ==
    /\ pc = "idle" /\ pc' /= "idle" =>
          /\ calls' = <<Call("bdrv_drain_all", 0)>>
          /\ drives' = drives
    /\ pc /= "idle" /\ pc' /= "idle" =>
          /\ Len(calls') >= Len(calls)
          /\ SubSeq(calls', 1, Len(calls)) = calls
          /\ \A i \in (Len(calls) + 1)..Len(calls') :
                calls'[i].op /= "bdrv_drain_all"
    /\ \A i \in 1..Len(drives) :
          LET gone == PosOf(drives', drives[i].ptr) = 0
              closed == ~gone /\ drives[i].bdrv.chain /= <<>>
                        /\ Deref(drives', drives[i].ptr).bdrv.chain = <<>>
              resized == ~gone /\ Deref(drives', drives[i].ptr).bdrv.length
                                     /= drives[i].bdrv.length
              commits == ~gone /\ ~HasJob(drives[i])
                         /\ Deref(drives', drives[i].ptr).bdrv.job.type = "commit"
          IN  /\ closed =>
                    "bdrv_close" \in Range(drive_del_calls(drives, drives[i].id))
              /\ resized => \E r \in ResizeResults :
                    r.drives = drives' /\ "bdrv_truncate" \in Range(r.calls)
              /\ commits => \E r \in CommitResults :
                    r.drives = drives' /\ "commit_start" \in Range(r.calls)

\* C22: transaction, resize, delete-drive and block-commit drain all I/O
\* before they touch a backend: the drain is the first call of a transaction,
\* ahead of every prepare, and it precedes the truncate of a resize, the flush
\* and close of a deletion and the start of the commit job
C22_DrainBeforeTouch == []C22_Drained /\ [][C22_Step]_vars

\* a transaction has prepared an action after draining, on a drive that was
\* resized before
C22_Witness ==
    /\ pc = "commit"
    /\ Len(calls) >= 2
    /\ calls[1] = Call("bdrv_drain_all", 0)
    /\ \E i \in 1..Len(drives) : drives[i].bdrv.length = 1

-----------------------------------------------------------------------------
(* Address resolution of an admission, checked under SpecAdmit *)

\* the admission under study got past the option checks of lines 388-548
CallValid ==
    /\ init_call.called
    /\ CallType /= "IF_COUNT"
    /\ blockdev_init_checks(init_call.opts, CallType)

\* the n-th address of the scan order (b,0),(b,1),...,(b,max-1),(b+1,0),...
ScanOrder(type, b, n) ==
    IF if_max_devs(type) = 0 THEN <<b, n>>
    ELSE <<b + (n \div if_max_devs(type)), n % if_max_devs(type)>>

ScanFree(n) ==
    LET at == ScanOrder(CallType, init_call.opts.bus, n)
    IN  drive_get(init_call.before, CallType, at[1], at[2]) = NULL

\* C23: an admission given neither index nor unit takes the first unoccupied
\* address of the order (b,0),...,(b,max-1),(b+1,0),... from its bus b; one is
\* found within as many steps as the registry has drives, its unit is below
\* the per-bus limit, and the admission gets past the unit and duplicate checks
C23_AutoAssign ==
    (CallValid /\ init_call.opts.index = -1 /\ init_call.opts.unit = -1) =>
        /\ \E n \in 0..Len(init_call.before) :
              /\ ScanFree(n)
              /\ \A m \in 0..(n - 1) : ~ScanFree(m)
              /\ CallAddress.ok
              /\ <<CallAddress.bus, CallAddress.unit>>
                     = ScanOrder(CallType, init_call.opts.bus, n)
        /\ if_max_devs(CallType) /= 0 =>
              CallAddress.unit \in 0..(if_max_devs(CallType) - 1)
        /\ init_call.allocated
        /\ init_call.ret /= NULL =>
              /\ Deref(drives, init_call.ret).bus = CallAddress.bus
              /\ Deref(drives, init_call.ret).unit = CallAddress.unit

\* bus 0 was full: the drive went to unit 0 of bus 1
C23_Witness ==
    /\ CallValid /\ init_call.opts.index = -1 /\ init_call.opts.unit = -1
    /\ init_call.opts.bus = 0
    /\ Len(init_call.before) = 2
    /\ init_call.ret /= NULL
    /\ Deref(drives, init_call.ret).bus = 1
    /\ Deref(drives, init_call.ret).unit = 0

\* a kind without per-bus limit: the drive went to the next unit of its bus
C23_WitnessUnlimited ==
    /\ CallValid /\ init_call.opts.index = -1 /\ init_call.opts.unit = -1
    /\ if_max_devs(CallType) = 0
    /\ init_call.ret /= NULL
    /\ Deref(drives, init_call.ret).unit = 1

\* C24: an admission given a flat index together with a bus or a unit,
\* whatever their values, is rejected and registers nothing
C24_IndexWithAddress ==
    (/\ init_call.called
     /\ "index" \in init_call.opts.explicit
     /\ init_call.opts.explicit \cap {"bus", "unit"} /= {}) =>
        /\ init_call.ret = NULL
        /\ drives = init_call.before

\* C25: every registered drive of a bus kind with a per-bus unit limit has
\* its unit in 0..limit-1, however it was admitted: by unit, by index of any
\* value, or by the scan for a free unit
C25_UnitInRange ==
    \A i \in 1..Len(drives) :
        if_max_devs(drives[i].type) /= 0 =>
            drives[i].unit \in 0..(if_max_devs(drives[i].type) - 1)

\* C26: a read-only drive that is not a cdrom is admitted only on scsi,
\* virtio, floppy, none and pflash; on every other kind the admission fails
\* and registers nothing, with or without an image file
C26_ReadOnlyKinds ==
    (/\ init_call.called
     /\ init_call.opts.read_only
     /\ init_call.opts.media /= "cdrom"
     /\ CallType \notin {IF_SCSI, IF_VIRTIO, IF_FLOPPY, IF_NONE, IF_PFLASH}) =>
        /\ init_call.ret = NULL
        /\ drives = init_call.before

\* the admission under study resolved to a free address within the limit
CallAddressFree ==
    /\ CallAddress.ok
    /\ if_max_devs(CallType) /= 0 => CallAddress.unit < if_max_devs(CallType)
    /\ drive_get(init_call.before, CallType, CallAddress.bus, CallAddress.unit) = NULL

\* C27: an admission that passes the checks and names neither an image file
\* nor format-specific options succeeds whatever opening a backend would
\* answer: the drive returned is registered at the resolved bus and unit, with
\* reference count 1 and no medium
C27_NoFile ==
    (/\ CallValid /\ CallAddressFree
     /\ init_call.opts.file = ""
     /\ ~init_call.opts.has_driver_specific_opts) =>
        /\ init_call.ret /= NULL
        /\ drives = Append(init_call.before, Deref(drives, init_call.ret))
        /\ LET d == Deref(drives, init_call.ret)
           IN  /\ d.type = CallType
               /\ d.bus = CallAddress.bus
               /\ d.unit = CallAddress.unit
               /\ d.refcount = 1
               /\ d.bdrv.chain = <<>>
               /\ ~bdrv_is_inserted(d)

\* admitted without an image although opening one would have failed
C27_Witness ==
    /\ CallValid /\ CallAddressFree
    /\ init_call.opts.file = ""
    /\ ~init_call.opts.has_driver_specific_opts
    /\ init_call.env.open_ret < 0
    /\ Len(init_call.before) = 1
    /\ init_call.ret /= NULL
    /\ Deref(drives, init_call.ret).refcount = 1

\* C28: the flag a valid discard policy parses to is among the flags the
\* backend is opened with: a drive admitted with discard on or unmap and an
\* image has the unmap flag in its open flags
C28_DiscardFlag ==
    (/\ init_call.called
     /\ init_call.opts.discard \in {"on", "unmap"}
     /\ init_call.ret /= NULL
     /\ bdrv_is_inserted(Deref(drives, init_call.ret))) =>
        "BDRV_O_UNMAP" \in Deref(drives, init_call.ret).bdrv.open_flags

\* C29: no two registered drives have the same id, whether the ids were
\* given or made from bus kind, bus, media and unit
C29_UniqueIds ==
    \A i, j \in 1..Len(drives) : i /= j => drives[i].id /= drives[j].id

-----------------------------------------------------------------------------
(* Commit of an external snapshot, checked under SpecTxn *)

\* the snapshot states of the work list that have been committed
Committed(states) ==
    {i \in 1..Len(states) :
        states[i].kind = "blockdev-snapshot-sync" /\ states[i].new_bs = "appended"}

Behind(states, i) ==
    LET prev == {j \in 1..(i - 1) :
                    /\ states[j].kind = "blockdev-snapshot-sync"
                    /\ states[j].old_bs = states[i].old_bs}
    IN  IF prev = {}
        THEN Deref(drives, states[i].old_bs).bdrv.chain[1]
        ELSE SnapshotFile(states[CHOOSE j \in prev : \A k \in prev : k <= j].action)

C30_Step ==
    (pc = "commit" /\ pc' = "done") =>
        /\ Committed(snap_bdrv_states') =
              {i \in 1..Len(snap_bdrv_states) :
                  snap_bdrv_states[i].kind = "blockdev-snapshot-sync"}
        /\ \A i \in Committed(snap_bdrv_states') :
              LET st == snap_bdrv_states[i]
                  chain == Deref(drives', st.old_bs).bdrv.chain
              IN  /\ \E pos \in 1..(Len(chain) - 1) :
                        /\ chain[pos] = SnapshotFile(st.action)
                        /\ chain[pos + 1] = Behind(snap_bdrv_states, i)
                  /\ "BDRV_O_RDWR" \notin snap_bdrv_states'[i].new_flags
                  /\ snap_bdrv_states'[i].new_flags \subseteq st.new_flags
                  /\ st.new_flags \ snap_bdrv_states'[i].new_flags
                        \subseteq {"BDRV_O_RDWR", "BDRV_O_NO_BACKING"}
        /\ \A d \in 1..Len(drives) :
              Len(drives'[d].bdrv.chain) = Len(drives[d].bdrv.chain)
                  + Cardinality({i \in Committed(snap_bdrv_states') :
                                    snap_bdrv_states[i].old_bs = drives[d].ptr})

-----------------------------------------------------------------------------
(* Abort of a drive-backup action, checked under SpecAbort *)

\* the registry as the abort of the k-th action finds it: the aborts of the
\* actions before it have run
AbortSeen(k, reuse) ==
    abort_loop(drives, bhs, events, SubSeq(snap_bdrv_states, 1, k - 1), calls, 1,
               reuse).drives

-----------------------------------------------------------------------------
(* Hot-unplug of a device whose drive has a job, checked under SpecUnplug *)

Registered(p) == PosOf(drives, p) /= 0

C32_Step ==
    \A p \in 1..2 :
        /\ \* the unplug asks the job to cancel
           (Registered(p) /\ ~Deref(drives, p).auto_del /\ Marked(p)'
                /\ HasJob(Deref(drives, p)))
               => Deref(drives', p).bdrv.job.cancelled
        /\ \* the drive goes only when its job has ended, the callback has
           \* scheduled the release and every release has run
           (Registered(p) /\ ~Registered(p)') =>
               /\ Marked(p)
               /\ ~HasJob(Deref(drives, p))
               /\ Pending(bhs', p) = 0
        /\ \* and it goes once
           ~Registered(p) => ~Registered(p)'

\* C32: when a device whose drive has a running job is unplugged, the job is
\* asked to cancel, the drive stays registered until the job has ended and
\* every deferred release has run, and it is then destroyed, once: no release
\* runs on it afterwards
C32_Unplug ==
    /\ [][C32_Step]_vars
    /\ []~uaf
    /\ \A p \in 1..2 : Marked(p) ~> ~Registered(p)

\* drive 1 was unplugged while it had a job: the job was cancelled, and the
\* drive is gone with nothing pending
C32_Witness ==
    /\ ~Registered(1)
    /\ Pending(bhs, 1) = 0
    /\ \E j \in 1..MaxJobs : BagIn([job |-> j, event |-> "BLOCK_JOB_CANCELLED"], events)
    /\ [refcount |-> 0, pending |-> 0, job |-> FALSE] \in destroyed

\* what delete-drive on the device named id leaves behind
DriveDelPost(id) ==
    LET bs == bdrv_find(drives, id)
    IN  IF bs = NULL \/ Deref(drives, bs).bdrv.in_use
        THEN /\ errp' /= ""
             /\ UNCHANGED <<drives, destroyed, bhs, events, nextJob>>
        ELSE LET i == PosOf(drives, bs)
             IN  /\ errp' = ""
                 /\ IF drives[i].bdrv.dev
                    THEN /\ Len(drives') = Len(drives)
                         /\ \A j \in 1..Len(drives) : j /= i => drives'[j] = drives[j]
                         /\ drives'[i].ptr = bs
                         /\ drives'[i].type = drives[i].type
                         /\ drives'[i].bus = drives[i].bus
                         /\ drives'[i].unit = drives[i].unit
                         /\ drives'[i].refcount = drives[i].refcount
                         /\ drives'[i].bdrv.dev
                         /\ drives'[i].bdrv.chain = <<>>
                         /\ drives'[i].bdrv.device_name = ""
                         /\ drives'[i].bdrv.on_read_error = "BLOCKDEV_ON_ERROR_REPORT"
                         /\ drives'[i].bdrv.on_write_error = "BLOCKDEV_ON_ERROR_REPORT"
                         /\ UNCHANGED destroyed
                    ELSE /\ PosOf(drives', bs) = 0
                         /\ Len(drives') = Len(drives) - 1
                         /\ \A j \in 1..Len(drives) : j /= i =>
                                \E k \in 1..Len(drives') : drives'[k] = drives[j]
                         /\ \E d \in destroyed' : d \notin destroyed

\* C33: delete-drive on a drive that is not in use closes the backend; with a
\* guest device attached the drive keeps its place in the registry, its
\* backend loses its name and both error policies become report; with no
\* device the drive leaves the registry at once; on an unknown or in-use
\* device the command fails and changes nothing
C33_DriveDel ==
    [][\A id \in JobDevices : do_drive_del(id) => DriveDelPost(id)]_vars

\* a deleted drive whose device is still attached: registered, closed, anonymous
C33_Witness ==
    /\ errp = ""
    /\ \E i \in 1..Len(drives) :
          /\ drives[i].bdrv.dev
          /\ drives[i].bdrv.device_name = ""
          /\ drives[i].bdrv.chain = <<>>
          /\ drives[i].bdrv.on_write_error = "BLOCKDEV_ON_ERROR_REPORT"

\* the drive a release is about to act on is registered and referenced
LiveDrive(p) == PosOf(drives, p) /= 0 /\ Deref(drives, p).refcount >= 1

\* C34: every execution of drive_put_ref, called inline by blockdev_auto_del
\* or from a deferred task, acts on a drive that is still registered and has
\* a reference count of at least one, so that its assertion holds and no
\* deferred release runs on a drive that delete-drive has destroyed
C34_PutRefOnLive ==
    [][/\ \A i \in 1..Len(bhs) : drive_put_ref_bh(i) => LiveDrive(bhs[i])
       /\ \A p \in 1..MaxDrives :
              (blockdev_auto_del(p) /\ Deref(drives, p).auto_del) => LiveDrive(p)
       /\ ~uaf']_vars

\* C35: drive-mirror never uses a backing image that is not there: when it
\* creates the target with a backing-file reference (mode absolute-paths,
\* effective sync not full) the source has a backing image, so that for sync
\* top and sync none on a drive without backing image the file name and the
\* format of a null source are never read
C35_BackingPresent ==
    [][\A c \in MirrorCalls :
          qmp_drive_mirror("ide0-hd0", c[1][1], c[1][2], c[1][3], c[1][4], c[2])
              => ~crashed']_vars

\* the snapshot images a committed transaction has put on top of drive i,
\* with the position each has in the chain
BackingAsRecorded(i) ==
    \A k \in 1..Len(snap_bdrv_states) :
        LET st == snap_bdrv_states[k]
        IN  (st.kind = "blockdev-snapshot-sync" /\ st.new_bs = "appended"
                /\ PosOf(drives, st.old_bs) = i) =>
            \A n \in 1..Len(drives[i].bdrv.chain) :
                drives[i].bdrv.chain[n] = SnapshotFile(st.action) =>
                    /\ n < Len(drives[i].bdrv.chain)
                    /\ drives[i].bdrv.chain[n + 1] = st.backing_file

\* C36: after a committed transaction, also one with two external-snapshot
\* actions on the same device, the backing file written into each new
\* snapshot image at prepare time is the image directly beneath it in the
\* chain
C36_BackingBeneath ==
    pc = "done" => \A i \in 1..Len(drives) : BackingAsRecorded(i)

\* a set-io-throttle request that the command refuses
ThrottleRefused(d, l) == bdrv_find(drives, d) = NULL \/ ~do_check_io_limits(l)

\* the limits, the enabled state and the timer of every drive of ds are
\* those of the registry
ThrottleStateOf(ds) ==
    [i \in 1..Len(ds) |->
        <<ds[i].bdrv.io_limits, ds[i].bdrv.io_limits_enabled, ds[i].bdrv.block_timer>>]

C37_Refused ==
    \A d \in JobDevices, l \in ThrottleLimits :
        ThrottleRefused(d, l) =>
            LET r == block_set_io_throttle(drives, d, l)
            IN  r.err /= "" /\ ThrottleStateOf(r.drives) = ThrottleStateOf(drives)

\* a step that ends with an error reported is a refused request
C37_Step ==
    \/ block_timer_cb(1)
    \/ errp' = ""
    \/ ThrottleStateOf(drives') = ThrottleStateOf(drives)

\* C37: a set-io-throttle request that names an unknown device or whose
\* limits fail validation reports an error and leaves the active limits, the
\* limiter's enabled state and its timer of every drive as they were
C37_RefusedKeeps == []C37_Refused /\ [][C37_Step]_vars

\* limits that fail validation were refused while the limiter was running
\* with a timer due
C37_Witness ==
    /\ errp = "GenericError"
    /\ Len(drives) = 1
    /\ drives[1].bdrv.io_limits_enabled
    /\ drives[1].bdrv.block_timer = "now"

-----------------------------------------------------------------------------
(* Properties of the guest agent's channel, checked under SpecChannel,
   SpecChannelFair and SpecWrite *)

\* the clients whose channel is open
Connected == {id \in 1..Len(chl.clients) : chl.clients[id].channel}

HostListener == chl.type /= "GA_CHANNEL_SESSION_CLIENT"

C38_AtMostOne ==
    HostListener =>
        /\ ~chl.failed
        /\ Cardinality(Connected) <= 1
        /\ Connected = IF chl.host = 0 THEN {} ELSE {chl.host}
        /\ Connected /= {} => chl.watches = 0

\* the step that accepts a connection takes the accept watch away
C38_Step ==
    (HostListener /\ Len(chl.clients') > Len(chl.clients)) =>
        /\ chl.watches = 1
        /\ chl.watches' = 0
        /\ chl.host = 0
        /\ chl.host' = Len(chl.clients')

\* C38: a listener of a type other than session-client has at most one
\* client connected at a time: the accept watch is removed when a connection
\* is accepted, so that the assertion of ga_channel_client_add that no host
\* client is set never fails
C38_OneHostClient == []C38_AtMostOne /\ [][C38_Step]_vars

\* a second connection was accepted after the first client was closed
C38_Witness ==
    /\ HostListener
    /\ chl.method = "GA_CHANNEL_UNIX_LISTEN"
    /\ Len(chl.clients) = 2
    /\ chl.host = 2
    /\ ~chl.clients[1].channel
    /\ chl.watches = 0

\* a listener on a unix socket that serves one host client at a time
UnixHostListener == HostListener /\ chl.method = "GA_CHANNEL_UNIX_LISTEN"

\* one accept watch exactly when no client is connected, and every client
\* that was closed had its channel shut down once
C39_Watches ==
    UnixHostListener =>
        /\ chl.channel
        /\ chl.watches = IF Connected = {} THEN 1 ELSE 0
        /\ \A id \in 1..Len(chl.clients) :
              /\ chl.clients[id].shutdowns = IF chl.clients[id].channel THEN 0 ELSE 1
              /\ chl.clients[id].freed = ~chl.clients[id].channel
              /\ chl.clients[id].watch = chl.clients[id].channel

\* C39: after the client of a unix-listen channel of a type other than
\* session-client is closed, the listener accepts again and a later
\* connection is eventually accepted; one accept watch is active exactly
\* when no client is connected; the channel of a closed client is shut down
\* exactly once
C39_AcceptsAgain ==
    /\ []C39_Watches
    /\ \A n \in 1..(MaxClients - 1) :
          (UnixHostListener /\ Len(chl.clients) = n /\ Connected = {})
              ~> (Len(chl.clients) = n + 1 /\ chl.host = n + 1)

\* the first client was closed and freed, and the listener is accepting again
C39_Witness ==
    /\ UnixHostListener
    /\ Len(chl.clients) = 1
    /\ chl.clients[1].shutdowns = 1
    /\ chl.clients[1].freed
    /\ chl.host = 0
    /\ chl.watches = 1

\* C40: ga_channel_write_all ends, and when it returns the normal status
\* every byte of buf[0..size) has been written to the channel once and in
\* order, also when the channel takes the bytes in several partial writes
C40_AllBytesOnce ==
    (wr.pc = "returned" /\ wr.status = "G_IO_STATUS_NORMAL") => wr.sent = wr.buf

=============================================================================
